---- MODULE Spec2Model ----
(***************************************************************************)
(* A model of image_bootstrap/engine.py: BootstrapEngine.run() as a        *)
(* sequential state machine over the nested try/finally scopes, the retry  *)
(* loops, the script phases and the UUID handling, and                     *)
(* BootstrapEngine.check_script_permissions() as a second state machine.   *)
(*                                                                         *)
(* External commands are answered by the environment: every call draws its *)
(* exit code (or errno, or output) nondeterministically.                   *)
(***************************************************************************)
EXTENDS Integers, Sequences, FiniteSets, TLC

(***************************************************************************)
(* Program constants.                                                      *)
(***************************************************************************)
EXIT_COMMAND_NOT_FOUND == 127
DISK_ID_OFFSET == 440
DISK_ID_COUNT_BYTES == 4
\* range(3) of the four command retry loops, the node poll and the rmdir loop
RETRY_RANGE == 3

BOOTLOADER__CHROOT_GRUB2__DEVICE == "chroot-grub2-device"
BOOTLOADER__CHROOT_GRUB2__DRIVE == "chroot-grub2-drive"
BOOTLOADER__HOST_GRUB2__DEVICE == "host-grub2-device"
BOOTLOADER__HOST_GRUB2__DRIVE == "host-grub2-drive"
BOOTLOADER__NONE == "none"

\* _NON_DISK_MOUNT_TASKS, by target
NON_DISK_MOUNT_TASKS == <<"dev", "dev/pts", "proc", "sys">>

(***************************************************************************)
(* Bounds of the model.                                                    *)
(***************************************************************************)
\* how many calls the environment lets fail with a raised error in one run
\* (exit 1 inside a retry loop and EBUSY raise nothing and are not counted)
MaxFaults == 2
\* how many mount points MountFinder finds below the mountpoint
MaxLeftovers == 2

(***************************************************************************)
(* Strings the code inspects are sequences: a basename is its sequence of  *)
(* character codes, a command output its sequence of tokens.               *)
(***************************************************************************)
DOT == 46
TILDE == 126
name_a == <<97>>
name_b == <<98>>
name_hidden == <<46, 104>>
name_backup == <<99, 126>>

Reverse(s) == [i \in 1..Len(s) |-> s[Len(s) + 1 - i]]

Range(s) == {s[i] : i \in 1..Len(s)}

\* str.startswith('.') / str.endswith('~') on a basename
StartsWithDot(basename) == Len(basename) > 0 /\ basename[1] = DOT
EndsWithTilde(basename) == Len(basename) > 0 /\ basename[Len(basename)] = TILDE

script_should_be_run(basename) ==
    IF StartsWithDot(basename) THEN FALSE
    ELSE IF EndsWithTilde(basename) THEN FALSE
    ELSE TRUE

\* Python's str comparison: lexicographic by character code
RECURSIVE StrLess(_, _)
StrLess(s, t) ==
    IF Len(t) = 0 THEN FALSE
    ELSE IF Len(s) = 0 THEN TRUE
    ELSE IF s[1] # t[1] THEN s[1] < t[1]
    ELSE StrLess(Tail(s), Tail(t))

\* sorted(os.listdir(dir))
sorted(listing) == SortSeq(listing, StrLess)

\* the scripts a phase runs, in the order the phase's loop visits them
Eligible(listing) == SelectSeq(listing, script_should_be_run)

\* _run_scripts_from iterates sorted(os.listdir(..)); the chroot phases
\* (_copy_chroot_scripts, _run_chroot_scripts, _remove_chroot_scripts)
\* iterate os.listdir(..) as returned
run_scripts_from_order(listing) == Eligible(sorted(listing))
chroot_scripts_order(listing) == Eligible(listing)

\* str.rstrip() on a command output: drop trailing whitespace tokens
IsSpace(tok) == tok \in {" ", "\n", "\t"}

RECURSIVE rstrip(_)
rstrip(s) ==
    IF Len(s) = 0 THEN s
    ELSE IF IsSpace(s[Len(s)]) THEN rstrip(SubSeq(s, 1, Len(s) - 1))
    ELSE s

\* image_bootstrap.types.uuid.require_valid_uuid: raises unless the string
\* is one canonical 8-4-4-4-12 UUID
CanonicalUuids == {"11111111-2222-3333-4444-555555555555",
                   "aaaaaaaa-bbbb-cccc-dddd-eeeeeeeeeeee"}
require_valid_uuid(s) == Len(s) = 1 /\ s[1] \in CanonicalUuids

\* '/dev/disk/by-uuid/%s / auto defaults 0 1' % uuid
fstab_line(uuid) == <<"/dev/disk/by-uuid/">> \o uuid \o <<" / auto defaults 0 1">>


(***************************************************************************)
(* Configuration (constructor arguments) and the file system as preflight  *)
(* sees it.                                                                *)
(***************************************************************************)
ScriptCategories == <<"pre-chroot", "chroot", "post-chroot">>

\* a scripts directory argument that is None
NoDir == [configured |-> FALSE, exists |-> FALSE, ftype |-> "dir", wbits |-> {},
          uid |-> 0, listing |-> <<>>, nonexec |-> {}]

\* a directory every check of check_script_permissions accepts
TrustedDir(listing) == [configured |-> TRUE, exists |-> TRUE, ftype |-> "dir",
                        wbits |-> {}, uid |-> 0, listing |-> listing, nonexec |-> {}]

Approaches == {BOOTLOADER__CHROOT_GRUB2__DEVICE, BOOTLOADER__CHROOT_GRUB2__DRIVE,
               BOOTLOADER__HOST_GRUB2__DEVICE, BOOTLOADER__HOST_GRUB2__DRIVE,
               BOOTLOADER__NONE}

\* what blkid -o value -s UUID prints
BlkidOutputs == {<<"aaaaaaaa-bbbb-cccc-dddd-eeeeeeeeeeee", "\n">>,
                 <<"not-a-uuid", " ", "\n">>,
                 <<"\n">>}

\* first line of kpartx -l, the token before " : "
DeviceNames == {"loop0p1", "vg-loop1p1"}

\* the characters of a device name
DeviceNameChars(device_name) ==
    CASE device_name = "loop0p1" -> <<108, 111, 111, 112, 48, 112, 49>>
      [] device_name = "vg-loop1p1" -> <<118, 103, 45, 108, 111, 111, 112, 49, 112, 49>>

\* str.startswith(prefix)
startswith(chars, prefix) ==
    Len(prefix) <= Len(chars) /\ SubSeq(chars, 1, Len(prefix)) = prefix

\* line 356: device_name.startswith('loop')
IsLoopName(device_name) ==
    startswith(DeviceNameChars(device_name), <<108, 111, 111, 112>>)

\* exit codes a child answers with: success, failure, command not found
ExitCodes == {0, 1, EXIT_COMMAND_NOT_FOUND}

LeftoverNames == <<"mnt/proc", "mnt/sys", "mnt/run">>

VARIABLES
    cfg,                        \* constructor arguments, fixed during a run
    scripts_dir,                \* the three scripts directories, by category
    pc,                         \* position in run() / check_script_permissions()
    exc,                        \* exception now propagating ("none": none)
    forward_exc,                \* the exception a forward step raised ("none": none)
    log,                        \* calls made, one entry per command (per retry loop)
    loop,                       \* the retry loop the next two belong to
    attempt,                    \* attempts made in that loop
    rc,                         \* result of the latest attempt
    idx,                        \* position of the current for-loop over scripts or mounts
    abs_mountpoint,             \* self._abs_mountpoint ("": None)
    abs_first_partition_device, \* self._abs_first_partition_device ("": None)
    first_partition_uuid,       \* self._first_partition_uuid (<<>>: None or empty)
    blkid_output,               \* what blkid printed in this run (<<>>: not run)
    fstab,                      \* content of <mountpoint>/etc/fstab (<<>>: not written)
    mbr_writes,                 \* writes to target_path: [offset, count]
    mounts_below,               \* MountFinder().below(mountpoint), host order
    device_map,                 \* content of <mountpoint>/boot/grub/device.map (<<>>: no file)
    bootloader_cmd,             \* argv handed to the executor by _install_bootloader__grub2
    bootloader_env,             \* env handed to the executor with it
    mountpoint_dir,             \* the directory made by mkdtemp exists on disk
    acquired,                   \* resources the completed steps acquired, in order
    partprobe_gave_up,          \* the partprobe loop ended after 3 failures
    boot_flag,                  \* partition 1 of the target has its boot flag set
    faults,                     \* failures the environment has injected: raises and give-ups
    uids,                       \* [euid, sudo_uid]: os.geteuid(), os.environ SUDO_UID
    perm_error,                 \* error check_script_permissions raised ("none": none)
    command_grub2_install,      \* self._command_grub2_install ("": None)
    path_commands,              \* commands os.path.exists finds joined to a directory of PATH
    version_output              \* what `grub-install --version` prints

vars == <<cfg, scripts_dir, pc, exc, forward_exc, log, loop, attempt, rc, idx, abs_mountpoint,
          abs_first_partition_device, first_partition_uuid, blkid_output, fstab,
          mbr_writes, mounts_below, device_map, bootloader_cmd, bootloader_env, mountpoint_dir,
          acquired, partprobe_gave_up, boot_flag, faults, uids, perm_error, command_grub2_install,
          path_commands, version_output>>

\* a call in the log: the command, what it acts on, and the script basename or
\* the UUID it names
Entry(cmd, tgt) == [cmd |-> cmd, tgt |-> tgt, script |-> <<>>, uuid |-> <<>>]
ScriptEntry(cmd, basename) == [cmd |-> cmd, tgt |-> "", script |-> basename, uuid |-> <<>>]
UuidEntry(cmd, tgt, uuid) == [cmd |-> cmd, tgt |-> tgt, script |-> <<>>, uuid |-> uuid]

use_chroot(approach) ==
    approach \in {BOOTLOADER__CHROOT_GRUB2__DEVICE, BOOTLOADER__CHROOT_GRUB2__DRIVE}
use_device_map(approach) ==
    approach \in {BOOTLOADER__CHROOT_GRUB2__DRIVE, BOOTLOADER__HOST_GRUB2__DRIVE}
use_host(approach) ==
    approach \in {BOOTLOADER__HOST_GRUB2__DEVICE, BOOTLOADER__HOST_GRUB2__DRIVE}


(***************************************************************************)
(* Control flow of run(): the try/finally nesting of lines 777-840.        *)
(***************************************************************************)
BootloaderSteps == {"install_bootloader_device_map", "install_bootloader_grub2",
                    "install_bootloader_remove_map"}

\* the steps that make up the finally blocks
CleanupSteps == {"unmount_directory_bootstrap_leftovers", "remove_chroot_scripts",
                 "unmount_nondisk_chroot_mounts", "unmount_disk_chroot_mounts",
                 "rmdir_mountpount", "kpartx_minus_d"}

\* mutant: the chroot scripts run outside any try
ChrootScriptsFinally_missing == "unmount_nondisk_chroot_mounts"

\* run() lines 827-830: the finally block of the try around _run_chroot_scripts
ChrootScriptsFinally == "remove_chroot_scripts"

\* where control goes when `step` raises: the finally block of the innermost
\* try that encloses it, or out of run()
Handler(step) ==
    CASE step \in {"unshare", "partition_device_mklabel", "partition_device_mkpart",
                   "partition_device_boot_flag", "set_disk_id_in_mbr",
                   "kpartx_minus_a_list", "kpartx_minus_a_stale", "kpartx_minus_a_add",
                   "kpartx_minus_a_partprobe", "kpartx_minus_a_poll"} -> "done"
      [] step \in {"format_partitions", "set_first_partition_uuid",
                   "gather_first_partition_uuid", "mkdir_mountpount"} -> "kpartx_minus_d"
      [] step = "mount_disk_chroot_mounts" -> "rmdir_mountpount"
      [] step = "run_directory_bootstrap" -> "unmount_directory_bootstrap_leftovers"
      [] step \in {"mkdir_mountpount_etc", "create_etc_hostname_first",
                   "create_etc_resolv_conf_first",
                   "unmount_directory_bootstrap_leftovers",
                   "create_etc_hostname_rewrite", "create_etc_resolv_conf_rewrite",
                   "create_etc_fstab", "create_network_configuration",
                   "run_pre_scripts", "mount_nondisk_chroot_mounts",
                   "unmount_nondisk_chroot_mounts", "perform_post_chroot_clean_up",
                   "run_post_scripts"} -> "unmount_disk_chroot_mounts"
      [] step \in BootloaderSteps ->
            IF use_chroot(cfg.bootloader_approach)
            THEN "unmount_nondisk_chroot_mounts" ELSE "unmount_disk_chroot_mounts"
      [] step \in {"set_root_password_inside_chroot",
                   "generate_grub_cfg_from_inside_chroot", "fix_grub_cfg_root_device",
                   "generate_initramfs_from_inside_chroot", "copy_chroot_scripts_mkdir",
                   "copy_chroot_scripts_cp", "copy_chroot_scripts_chmod",
                   "remove_chroot_scripts"} -> "unmount_nondisk_chroot_mounts"
      [] step = "run_chroot_scripts" -> ChrootScriptsFinally
      [] step = "unmount_disk_chroot_mounts" -> "rmdir_mountpount"
      [] step = "rmdir_mountpount" -> "kpartx_minus_d"
      [] step = "kpartx_minus_d" -> "done"

\* mutant: a finally block ends the propagation of the error it ran under
AfterFinally_always_continues(step, following) == following

\* where control goes when the finally block `step` ends without raising
AfterFinally(step, following) == IF exc = "none" THEN following ELSE Handler(step)

\* mutant: the drive approaches go straight to the installation command
InstallBootloaderEntry_no_device_map == "install_bootloader_grub2"

\* entry of _install_bootloader__grub2
InstallBootloaderEntry ==
    IF use_device_map(cfg.bootloader_approach)
    THEN "install_bootloader_device_map" ELSE "install_bootloader_grub2"

\* mutant: run() goes from partitioning straight to activation
AfterPartitionDevice_skips_disk_id == "kpartx_minus_a_list"

\* run() lines 779-780: _set_disk_id_in_mbr() follows _partition_device()
AfterPartitionDevice == "set_disk_id_in_mbr"

\* mutant: every target is refreshed with partprobe
AfterKpartxList_always_partprobe(device_name) == "kpartx_minus_a_partprobe"

\* lines 358 and 371: the branch on is_loop_device
AfterKpartxList(device_name) ==
    IF IsLoopName(device_name) THEN "kpartx_minus_a_stale" ELSE "kpartx_minus_a_partprobe"

\* run() lines 780-781: _kpartx_minus_a() follows _set_disk_id_in_mbr()
AfterSetDiskId == "kpartx_minus_a_list"

\* mutant: the UUID is read back even when one is configured
AfterFormatPartitions_always_gather(uuid) == "gather_first_partition_uuid"

\* run() lines 785-788: impose the configured UUID, or read it back
AfterFormatPartitions(uuid) ==
    IF uuid # <<>> THEN "set_first_partition_uuid" ELSE "gather_first_partition_uuid"

\* mutant: the host installation is left out
AfterPreScripts_skips_host_install == "mount_nondisk_chroot_mounts"

\* run() lines 806-809
AfterPreScripts ==
    IF use_host(cfg.bootloader_approach)
    THEN InstallBootloaderEntry ELSE "mount_nondisk_chroot_mounts"

\* mutant: only the chroot approaches get a GRUB configuration
AfterRootPassword_skips_grub_cfg ==
    IF use_chroot(cfg.bootloader_approach) THEN InstallBootloaderEntry
    ELSE "generate_initramfs_from_inside_chroot"

\* run() lines 813-820
AfterRootPassword ==
    IF use_chroot(cfg.bootloader_approach) THEN InstallBootloaderEntry
    ELSE IF cfg.bootloader_approach # BOOTLOADER__NONE
    THEN "generate_grub_cfg_from_inside_chroot"
    ELSE "generate_initramfs_from_inside_chroot"

\* the step after _install_bootloader__grub2 returns
AfterInstallBootloader ==
    IF use_chroot(cfg.bootloader_approach)
    THEN "generate_grub_cfg_from_inside_chroot" ELSE "mount_nondisk_chroot_mounts"

\* run() lines 825-832
AfterInitramfs ==
    IF scripts_dir["chroot"].configured
    THEN "copy_chroot_scripts_mkdir" ELSE "unmount_nondisk_chroot_mounts"

(***************************************************************************)
(* Outcomes of one call.                                                   *)
(***************************************************************************)
NoLoop == loop' = "" /\ attempt' = 0 /\ rc' = 0

Return(following, entries) ==
    /\ pc' = following
    /\ idx' = 1
    /\ log' = log \o entries
    /\ UNCHANGED <<exc, forward_exc, faults>>

Raise(step, entries) ==
    /\ faults < MaxFaults
    /\ faults' = faults + 1
    /\ exc' = step
    /\ forward_exc' = IF step \in CleanupSteps THEN forward_exc ELSE step
    /\ pc' = Handler(step)
    /\ idx' = 1
    /\ log' = log \o entries

\* mutant: exit 127 is retried like any other failure
retry_policy_retries_127(code, n) ==
    IF code = 0 THEN "break"
    ELSE IF n < RETRY_RANGE THEN "retry"
    ELSE "fall_through"

\* mutant: the loops are over range(4)
retry_policy_four_attempts(code, n) ==
    IF code = 0 THEN "break"
    ELSE IF code = EXIT_COMMAND_NOT_FOUND THEN "raise"
    ELSE IF n < RETRY_RANGE + 1 THEN "retry"
    ELSE "fall_through"

\* the retry loops of lines 334-342, 377-385, 695-703, 732-740, after the
\* attempt numbered n (from 1) returned `code`
retry_policy(code, n) ==
    IF code = 0 THEN "break"
    ELSE IF code = EXIT_COMMAND_NOT_FOUND THEN "raise"
    ELSE IF n < RETRY_RANGE THEN "retry"
    ELSE "fall_through"

\* a retried command failed on its last attempt and the loop ran out
GiveUp == faults < MaxFaults /\ faults' = faults + 1

\* one attempt of the retry loop `id` at `step`; the loop's locals are gone once
\* it breaks; `finished` is where the loop's
\* end (break, or the range running out) leads
RetryCall(id, step, entry, finished) ==
    LET n == (IF loop = id THEN attempt ELSE 0) + 1
        entries == IF n = 1 THEN <<entry>> ELSE <<>>
    IN  \E code \in ExitCodes :
            /\ IF retry_policy(code, n) = "break"
               THEN NoLoop
               ELSE loop' = id /\ attempt' = n /\ rc' = code
            /\ \/ /\ retry_policy(code, n) = "break"
                  /\ finished
                  /\ log' = log \o entries
                  /\ UNCHANGED <<exc, forward_exc, faults>>
               \/ /\ retry_policy(code, n) = "fall_through"
                  /\ finished
                  /\ log' = log \o entries
                  /\ GiveUp
                  /\ UNCHANGED <<exc, forward_exc>>
               \/ /\ retry_policy(code, n) = "raise"
                  /\ Raise(step, entries)
               \/ /\ retry_policy(code, n) = "retry"
                  /\ log' = log \o entries
                  /\ UNCHANGED <<pc, idx, exc, forward_exc, faults>>

Goto(following) == pc' = following /\ idx' = 1


(***************************************************************************)
(* Initial states: the engine as constructed, after preflight passed.      *)
(***************************************************************************)
\* the arguments that do not shape the control flow of the chroot phase are
\* drawn together: all absent, or all present
Variants == {
    [disk_id |-> <<>>, first_partition_uuid |-> <<>>, root_password |-> FALSE,
     bootloader_force |-> FALSE, pre |-> NoDir, post |-> NoDir],
    [disk_id |-> <<222, 173, 190, 239>>,
     first_partition_uuid |-> <<"11111111-2222-3333-4444-555555555555">>,
     root_password |-> TRUE, bootloader_force |-> TRUE,
     pre |-> TrustedDir(<<name_b, name_hidden, name_a, name_backup>>),
     post |-> TrustedDir(<<name_b, name_a>>)]}

ChrootDirs == {NoDir, TrustedDir(<<name_b, name_hidden, name_a, name_backup>>)}

\* the configurations a run starts from: every approach with all optional
\* arguments present, and the smallest run (nothing optional, no bootloader)
Configs ==
    {<<a, v, c>> \in Approaches \X Variants \X ChrootDirs :
        \/ v.root_password /\ c.configured
        \/ a = BOOTLOADER__NONE /\ ~v.root_password /\ ~c.configured}

LeftoverChoices == {SubSeq(LeftoverNames, 1, k) : k \in {0, MaxLeftovers}}

MOUNTPOINT == "/mnt/tmpXXXXXX"
TARGET_PATH == "/dev/target"

\* env=None: the child inherits the environment of the engine
InheritedEnv == [inherited |-> TRUE, unset |-> {}, set |-> {}]

\* os.path.realpath: the target path is a symlink to the block device
realpath(path) == IF path = TARGET_PATH THEN "/dev/sdz" ELSE path

\* line 572: '%s\t%s' % (grub_drive, real_abs_target), and print's newline
device_map_line(real_abs_target) == <<"(hd0)", "\t", real_abs_target, "\n">>

\* a host where preflight found every command, grub2-install included
InitHost ==
    /\ command_grub2_install = cfg.command_grub2_install
    /\ path_commands = {"grub2-install"}
    /\ version_output = <<>>

InitRuntime ==
    /\ exc = "none"
    /\ forward_exc = "none"
    /\ log = <<>>
    /\ loop = ""
    /\ attempt = 0
    /\ rc = 0
    /\ idx = 1
    /\ abs_mountpoint = ""
    /\ abs_first_partition_device = <<>>
    /\ blkid_output = <<>>
    /\ fstab = <<>>
    /\ mbr_writes = <<>>
    /\ mounts_below = <<>>
    /\ device_map = <<>>
    /\ bootloader_cmd = <<>>
    /\ bootloader_env = InheritedEnv
    /\ mountpoint_dir = FALSE
    /\ acquired = <<>>
    /\ partprobe_gave_up = FALSE
    /\ boot_flag = FALSE
    /\ faults = 0
    /\ perm_error = "none"

Init ==
    /\ \E a \in Approaches, c \in ChrootDirs, v \in Variants :
        /\ <<a, v, c>> \in Configs
        /\ cfg = [disk_id |-> v.disk_id,
                  first_partition_uuid |-> v.first_partition_uuid,
                  root_password |-> v.root_password,
                  bootloader_approach |-> a,
                  bootloader_force |-> v.bootloader_force,
                  command_grub2_install |-> "grub2-install"]
        /\ scripts_dir = [category \in Range(ScriptCategories) |->
                            CASE category = "pre-chroot" -> v.pre
                              [] category = "chroot" -> c
                              [] category = "post-chroot" -> v.post]
    /\ first_partition_uuid = cfg.first_partition_uuid
    /\ uids = [euid |-> 0, sudo_uid |-> [set |-> FALSE, text |-> <<>>]]
    /\ pc = "unshare"
    /\ InitHost
    /\ InitRuntime

(***************************************************************************)
(* run(): one action per step.                                             *)
(***************************************************************************)
fixed == <<cfg, scripts_dir, uids, perm_error, command_grub2_install, path_commands,
           version_output>>

run_state == <<abs_mountpoint, abs_first_partition_device, first_partition_uuid,
               blkid_output, fstab, mbr_writes, mounts_below, device_map,
               bootloader_cmd, bootloader_env, mountpoint_dir, acquired,
               partprobe_gave_up, boot_flag>>

\* mutant: a failed call is made again
SimpleStep_retried(step, entry, following) ==
    /\ pc = step
    /\ NoLoop
    /\ \/ Return(following, <<entry>>)
       \/ /\ faults < MaxFaults
          /\ faults' = faults + 1
          /\ log' = Append(log, entry)
          /\ UNCHANGED <<pc, idx, exc, forward_exc>>
    /\ UNCHANGED <<fixed, run_state>>

\* a step that is one call, not retried: it returns or it raises
SimpleStep(step, entry, following) ==
    /\ pc = step
    /\ NoLoop
    /\ \/ Return(following, <<entry>>)
       \/ Raise(step, <<entry>>)
    /\ UNCHANGED <<fixed, run_state>>

\* lines 290-305
unshare ==
    /\ pc = "unshare"
    /\ NoLoop
    /\ \/ Return("partition_device_mklabel",
                 <<Entry("unshare", ""), Entry("sethostname", "")>>)
       \/ Raise("unshare", <<Entry("unshare", "")>>)
       \/ Raise("unshare", <<Entry("unshare", ""), Entry("sethostname", "")>>)
    /\ UNCHANGED <<fixed, run_state>>

\* lines 307-315
partition_device_mklabel ==
    SimpleStep("partition_device_mklabel", Entry("parted", "mklabel"),
               "partition_device_mkpart")

\* lines 317-325
partition_device_mkpart ==
    SimpleStep("partition_device_mkpart", Entry("parted", "mkpart"),
               "partition_device_boot_flag")

\* lines 327-342
partition_device_boot_flag ==
    /\ pc = "partition_device_boot_flag"
    /\ RetryCall("partition_device_boot_flag", "partition_device_boot_flag",
                 Entry("parted", "set 1 boot on"), Goto(AfterPartitionDevice))
    /\ boot_flag' = (boot_flag \/ rc' = 0)
    /\ UNCHANGED <<fixed, abs_mountpoint, abs_first_partition_device,
                   first_partition_uuid, blkid_output, fstab, mbr_writes,
                   mounts_below, device_map, bootloader_cmd, bootloader_env, mountpoint_dir,
                   acquired, partprobe_gave_up>>

\* lines 754-765
set_disk_id_in_mbr ==
    /\ pc = "set_disk_id_in_mbr"
    /\ NoLoop
    /\ \/ /\ cfg.disk_id = <<>>
          /\ Return(AfterSetDiskId, <<>>)
          /\ UNCHANGED mbr_writes
       \/ /\ cfg.disk_id # <<>>
          /\ Len(cfg.disk_id) = DISK_ID_COUNT_BYTES
          /\ \/ /\ Return(AfterSetDiskId, <<Entry("open_w", TARGET_PATH)>>)
                /\ mbr_writes' = Append(mbr_writes, [offset |-> DISK_ID_OFFSET,
                                                     count |-> Len(cfg.disk_id)])
             \/ /\ Raise("set_disk_id_in_mbr", <<Entry("open_w", TARGET_PATH)>>)
                /\ UNCHANGED mbr_writes
    /\ UNCHANGED <<fixed, abs_mountpoint, abs_first_partition_device,
                   first_partition_uuid, blkid_output, fstab, mounts_below,
                   device_map, bootloader_cmd, bootloader_env, mountpoint_dir, acquired,
                   partprobe_gave_up, boot_flag>>

\* lines 344-356
kpartx_minus_a_list ==
    /\ pc = "kpartx_minus_a_list"
    /\ NoLoop
    /\ \/ \E device_name \in DeviceNames :
            /\ abs_first_partition_device' = <<"/dev/mapper/", device_name>>
            /\ Return(AfterKpartxList(device_name), <<Entry("kpartx", "-l")>>)
       \/ /\ Raise("kpartx_minus_a_list", <<Entry("kpartx", "-l")>>)
          /\ UNCHANGED abs_first_partition_device
    /\ UNCHANGED <<fixed, abs_mountpoint, first_partition_uuid, blkid_output, fstab,
                   mbr_writes, mounts_below, device_map, bootloader_cmd, bootloader_env,
                   mountpoint_dir, acquired, partprobe_gave_up, boot_flag>>

\* lines 358-361
kpartx_minus_a_stale ==
    /\ pc = "kpartx_minus_a_stale"
    /\ NoLoop
    /\ \E exists \in BOOLEAN :
        \/ /\ exists
           /\ Raise("kpartx_minus_a_stale", <<>>)
        \/ /\ ~exists
           /\ Return("kpartx_minus_a_add", <<>>)
    /\ UNCHANGED <<fixed, run_state>>

\* lines 363-370
kpartx_minus_a_add ==
    SimpleStep("kpartx_minus_a_add", Entry("kpartx", "-a"), "kpartx_minus_a_poll")

\* lines 372-385
kpartx_minus_a_partprobe ==
    /\ pc = "kpartx_minus_a_partprobe"
    /\ RetryCall("kpartx_minus_a_partprobe", "kpartx_minus_a_partprobe",
                 Entry("partprobe", ""), Goto("kpartx_minus_a_poll"))
    /\ partprobe_gave_up' = (retry_policy(rc', attempt') = "fall_through")
    /\ UNCHANGED <<fixed, abs_mountpoint, abs_first_partition_device,
                   first_partition_uuid, blkid_output, fstab, mbr_writes,
                   mounts_below, device_map, bootloader_cmd, bootloader_env, mountpoint_dir,
                   acquired, boot_flag>>

\* lines 387-393
kpartx_minus_a_poll ==
    /\ pc = "kpartx_minus_a_poll"
    /\ LET n == (IF loop = "kpartx_minus_a_poll" THEN attempt ELSE 0) + 1
       IN  \E exists \in BOOLEAN :
                /\ IF exists
                   THEN NoLoop
                   ELSE loop' = "kpartx_minus_a_poll" /\ attempt' = n /\ rc' = 0
                /\ \/ /\ exists
                      /\ Return("format_partitions", <<>>)
                      /\ acquired' = Append(acquired, "activation")
                   \/ /\ ~exists
                      /\ n < RETRY_RANGE
                      /\ UNCHANGED <<pc, idx, log, exc, forward_exc, faults, acquired>>
                   \/ /\ ~exists
                      /\ n = RETRY_RANGE
                      /\ Raise("kpartx_minus_a_poll", <<>>)
                      /\ UNCHANGED acquired
    /\ UNCHANGED <<fixed, abs_mountpoint, abs_first_partition_device,
                   first_partition_uuid, blkid_output, fstab, mbr_writes,
                   mounts_below, device_map, bootloader_cmd, bootloader_env, mountpoint_dir,
                   partprobe_gave_up, boot_flag>>

\* lines 395-402
format_partitions ==
    SimpleStep("format_partitions", Entry("mkfs.ext4", ""),
               AfterFormatPartitions(first_partition_uuid))

\* lines 454-463, and the assert of line 789
set_first_partition_uuid ==
    /\ pc = "set_first_partition_uuid"
    /\ NoLoop
    /\ LET call == UuidEntry("tune2fs", abs_first_partition_device[2],
                             first_partition_uuid)
       IN  \/ /\ first_partition_uuid # <<>>
              /\ Return("mkdir_mountpount", <<call>>)
           \/ Raise("set_first_partition_uuid", <<call>>)
    /\ UNCHANGED <<fixed, run_state>>

\* lines 465-475, and the assert of line 789
gather_first_partition_uuid ==
    /\ pc = "gather_first_partition_uuid"
    /\ NoLoop
    /\ LET call == Entry("blkid", abs_first_partition_device[2])
       IN  \/ \E output \in BlkidOutputs :
                /\ blkid_output' = output
                /\ \/ /\ require_valid_uuid(rstrip(output))
                      /\ rstrip(output) # <<>>
                      /\ first_partition_uuid' = rstrip(output)
                      /\ Return("mkdir_mountpount", <<call>>)
                   \/ /\ ~(require_valid_uuid(rstrip(output)) /\ rstrip(output) # <<>>)
                      /\ Raise("gather_first_partition_uuid", <<call>>)
                      /\ UNCHANGED first_partition_uuid
           \/ /\ Raise("gather_first_partition_uuid", <<call>>)
              /\ UNCHANGED <<first_partition_uuid, blkid_output>>
    /\ UNCHANGED <<fixed, abs_mountpoint, abs_first_partition_device, fstab,
                   mbr_writes, mounts_below, device_map, bootloader_cmd, bootloader_env,
                   mountpoint_dir, acquired, partprobe_gave_up, boot_flag>>

\* lines 404-406
mkdir_mountpount ==
    /\ pc = "mkdir_mountpount"
    /\ NoLoop
    /\ \/ /\ Return("mount_disk_chroot_mounts", <<Entry("mkdtemp", "/mnt")>>)
          /\ abs_mountpoint' = MOUNTPOINT
          /\ mountpoint_dir' = TRUE
          /\ acquired' = Append(acquired, "mountpoint")
       \/ /\ Raise("mkdir_mountpount", <<Entry("mkdtemp", "/mnt")>>)
          /\ UNCHANGED <<abs_mountpoint, mountpoint_dir, acquired>>
    /\ UNCHANGED <<fixed, abs_first_partition_device, first_partition_uuid,
                   blkid_output, fstab, mbr_writes, mounts_below, device_map,
                   bootloader_cmd, bootloader_env, partprobe_gave_up, boot_flag>>

\* lines 413-420
mount_disk_chroot_mounts ==
    /\ pc = "mount_disk_chroot_mounts"
    /\ NoLoop
    /\ \/ /\ Return("mkdir_mountpount_etc", <<Entry("mount", "mountpoint")>>)
          /\ acquired' = Append(acquired, "partition_mount")
       \/ /\ Raise("mount_disk_chroot_mounts", <<Entry("mount", "mountpoint")>>)
          /\ UNCHANGED acquired
    /\ UNCHANGED <<fixed, abs_mountpoint, abs_first_partition_device,
                   first_partition_uuid, blkid_output, fstab, mbr_writes,
                   mounts_below, device_map, bootloader_cmd, bootloader_env, mountpoint_dir,
                   partprobe_gave_up, boot_flag>>

\* lines 408-411
mkdir_mountpount_etc ==
    SimpleStep("mkdir_mountpount_etc", Entry("os.mkdir", "etc"),
               "create_etc_hostname_first")

\* lines 484-489, called at line 796
create_etc_hostname_first ==
    SimpleStep("create_etc_hostname_first", Entry("write", "etc/hostname"),
               "create_etc_resolv_conf_first")

\* lines 615-627, called at line 797
create_etc_resolv_conf_first ==
    SimpleStep("create_etc_resolv_conf_first", Entry("write", "etc/resolv.conf"),
               "run_directory_bootstrap")


\* lines 422-427, called at line 799; what it leaves mounted below the
\* mountpoint is what MountFinder then finds
run_directory_bootstrap ==
    /\ pc = "run_directory_bootstrap"
    /\ NoLoop
    /\ \E left \in LeftoverChoices : mounts_below' = left
    /\ \/ Return("unmount_directory_bootstrap_leftovers",
                 <<Entry("run_directory_bootstrap", "mountpoint")>>)
       \/ Raise("run_directory_bootstrap",
                <<Entry("run_directory_bootstrap", "mountpoint")>>)
    /\ UNCHANGED <<fixed, abs_mountpoint, abs_first_partition_device,
                   first_partition_uuid, blkid_output, fstab, mbr_writes,
                   device_map, bootloader_cmd, bootloader_env, mountpoint_dir, acquired,
                   partprobe_gave_up, boot_flag>>

\* mutant: the mountpoints are unmounted in the order listed
leftovers_order_as_listed == mounts_below

\* line 432: reversed(list(mounts.below(..)))
leftovers_order == Reverse(mounts_below)

\* lines 429-433 (finally of lines 800-801)
unmount_directory_bootstrap_leftovers ==
    /\ pc = "unmount_directory_bootstrap_leftovers"
    /\ \/ /\ idx <= Len(leftovers_order)
          /\ RetryCall(leftovers_order[idx], "unmount_directory_bootstrap_leftovers",
                       Entry("umount", leftovers_order[idx]),
                       pc' = pc /\ idx' = idx + 1)
       \/ /\ idx > Len(leftovers_order)
          /\ NoLoop
          /\ Goto(AfterFinally("unmount_directory_bootstrap_leftovers",
                               "create_etc_hostname_rewrite"))
          /\ UNCHANGED <<log, exc, forward_exc, faults>>
    /\ UNCHANGED <<fixed, run_state>>

\* lines 484-489, called at line 802
create_etc_hostname_rewrite ==
    SimpleStep("create_etc_hostname_rewrite", Entry("write", "etc/hostname"),
               "create_etc_resolv_conf_rewrite")

\* lines 615-627, called at line 803
create_etc_resolv_conf_rewrite ==
    SimpleStep("create_etc_resolv_conf_rewrite", Entry("write", "etc/resolv.conf"),
               "create_etc_fstab")

\* lines 477-482
create_etc_fstab ==
    /\ pc = "create_etc_fstab"
    /\ NoLoop
    /\ \/ /\ Return("create_network_configuration", <<Entry("write", "etc/fstab")>>)
          /\ fstab' = fstab_line(first_partition_uuid)
       \/ /\ Raise("create_etc_fstab", <<Entry("write", "etc/fstab")>>)
          /\ UNCHANGED fstab
    /\ UNCHANGED <<fixed, abs_mountpoint, abs_first_partition_device,
                   first_partition_uuid, blkid_output, mbr_writes, mounts_below,
                   device_map, bootloader_cmd, bootloader_env, mountpoint_dir, acquired,
                   partprobe_gave_up, boot_flag>>

\* lines 491-492
create_network_configuration ==
    SimpleStep("create_network_configuration",
               Entry("create_network_configuration", "mountpoint"), "run_pre_scripts")

\* the scripts _run_scripts_from runs for a directory argument (none for None)
scripts_from(dir) == IF dir.configured THEN run_scripts_from_order(dir.listing) ELSE <<>>

\* the scripts the three chroot-script loops visit
chroot_scripts == chroot_scripts_order(scripts_dir["chroot"].listing)

\* one pass of the loop of lines 504-509 over `order`
RunScriptsStep(step, cmd, order, following) ==
    /\ pc = step
    /\ NoLoop
    /\ \/ /\ idx <= Len(order)
          /\ \/ /\ pc' = pc
                /\ idx' = idx + 1
                /\ log' = Append(log, ScriptEntry(cmd, order[idx]))
                /\ UNCHANGED <<exc, forward_exc, faults>>
             \/ Raise(step, <<ScriptEntry(cmd, order[idx])>>)
       \/ /\ idx > Len(order)
          /\ Return(following, <<>>)
    /\ UNCHANGED <<fixed, run_state>>

\* lines 527-531 and 503-509
run_pre_scripts ==
    RunScriptsStep("run_pre_scripts", "run_pre_script",
                   scripts_from(scripts_dir["pre-chroot"]), AfterPreScripts)

\* lines 565-573
install_bootloader_device_map ==
    /\ pc = "install_bootloader_device_map"
    /\ NoLoop
    /\ \/ /\ Return("install_bootloader_grub2",
                    <<Entry("write", "boot/grub/device.map")>>)
          /\ device_map' = device_map_line(realpath(TARGET_PATH))
       \/ /\ Raise("install_bootloader_device_map",
                   <<Entry("write", "boot/grub/device.map")>>)
          /\ UNCHANGED device_map
    /\ UNCHANGED <<fixed, abs_mountpoint, abs_first_partition_device,
                   first_partition_uuid, blkid_output, fstab, mbr_writes,
                   mounts_below, bootloader_cmd, bootloader_env, mountpoint_dir, acquired,
                   partprobe_gave_up, boot_flag>>

\* lines 511-525: the variables taken out of, and put into, a copy of os.environ
make_environment(tell_mountpoint) ==
    [inherited |-> FALSE,
     unset |-> {"LANG", "LANGUAGE"},
     set |-> {"HOSTNAME", "IB_HOSTNAME", "LC_ALL"}
             \cup (IF tell_mountpoint THEN {"IB_ROOT", "MNTPOINT"} ELSE {})]

\* lines 585 and 592: the env of the bootloader installation
grub2_install_env(approach) ==
    IF use_chroot(approach) THEN make_environment(FALSE) ELSE InheritedEnv

\* mutant: --force is appended after the device
grub2_install_cmd_force_last(approach, force, mountpoint, command) ==
    (IF use_chroot(approach)
     THEN <<"chroot", mountpoint, "distro:grub2-install">>
     ELSE <<command, "--boot-directory", mountpoint \o "/boot">>)
    \o (IF use_device_map(approach) THEN <<"(hd0)">> ELSE <<TARGET_PATH>>)
    \o (IF force THEN <<"--force">> ELSE <<>>)

\* lines 577-600: the argv of the bootloader installation
grub2_install_cmd(approach, force, mountpoint, command) ==
    (IF use_chroot(approach)
     THEN <<"chroot", mountpoint, "distro:grub2-install">>
     ELSE <<command, "--boot-directory", mountpoint \o "/boot">>)
    \o (IF force THEN <<"--force">> ELSE <<>>)
    \o (IF use_device_map(approach) THEN <<"(hd0)">> ELSE <<TARGET_PATH>>)

\* lines 575-602
install_bootloader_grub2 ==
    /\ pc = "install_bootloader_grub2"
    /\ NoLoop
    /\ bootloader_cmd' = grub2_install_cmd(cfg.bootloader_approach,
                                           cfg.bootloader_force, abs_mountpoint,
                                           command_grub2_install)
    /\ bootloader_env' = grub2_install_env(cfg.bootloader_approach)
    /\ LET call == Entry("grub2-install",
                         IF use_chroot(cfg.bootloader_approach) THEN "chroot" ELSE "host")
       IN  \/ Return(IF use_device_map(cfg.bootloader_approach)
                     THEN "install_bootloader_remove_map"
                     ELSE AfterInstallBootloader, <<call>>)
           \/ Raise("install_bootloader_grub2", <<call>>)
    /\ UNCHANGED <<fixed, abs_mountpoint, abs_first_partition_device,
                   first_partition_uuid, blkid_output, fstab, mbr_writes,
                   mounts_below, device_map, mountpoint_dir, acquired,
                   partprobe_gave_up, boot_flag>>

\* lines 604-605
install_bootloader_remove_map ==
    /\ pc = "install_bootloader_remove_map"
    /\ NoLoop
    /\ \/ /\ Return(AfterInstallBootloader, <<Entry("os.remove", "boot/grub/device.map")>>)
          /\ device_map' = <<>>
       \/ /\ Raise("install_bootloader_remove_map",
                   <<Entry("os.remove", "boot/grub/device.map")>>)
          /\ UNCHANGED device_map
    /\ UNCHANGED <<fixed, abs_mountpoint, abs_first_partition_device,
                   first_partition_uuid, blkid_output, fstab, mbr_writes,
                   mounts_below, bootloader_cmd, bootloader_env, mountpoint_dir, acquired,
                   partprobe_gave_up, boot_flag>>

\* lines 533-544
mount_nondisk_chroot_mounts ==
    /\ pc = "mount_nondisk_chroot_mounts"
    /\ NoLoop
    /\ LET call == Entry("mount", NON_DISK_MOUNT_TASKS[idx])
       IN  \/ /\ idx < Len(NON_DISK_MOUNT_TASKS)
              /\ pc' = pc
              /\ idx' = idx + 1
              /\ log' = Append(log, call)
              /\ UNCHANGED <<exc, forward_exc, faults, acquired>>
           \/ /\ idx = Len(NON_DISK_MOUNT_TASKS)
              /\ Return("set_root_password_inside_chroot", <<call>>)
              /\ acquired' = Append(acquired, "nondisk_mounts")
           \/ /\ Raise("mount_nondisk_chroot_mounts", <<call>>)
              /\ UNCHANGED acquired
    /\ UNCHANGED <<fixed, abs_mountpoint, abs_first_partition_device,
                   first_partition_uuid, blkid_output, fstab, mbr_writes,
                   mounts_below, device_map, bootloader_cmd, bootloader_env, mountpoint_dir,
                   partprobe_gave_up, boot_flag>>

\* lines 435-452
set_root_password_inside_chroot ==
    /\ pc = "set_root_password_inside_chroot"
    /\ NoLoop
    /\ \/ /\ ~cfg.root_password
          /\ Return(AfterRootPassword, <<>>)
       \/ /\ cfg.root_password
          /\ \/ Return(AfterRootPassword, <<Entry("chroot", "chpasswd")>>)
             \/ Raise("set_root_password_inside_chroot", <<Entry("chroot", "chpasswd")>>)
    /\ UNCHANGED <<fixed, run_state>>

\* lines 607-609, called at line 818
generate_grub_cfg_from_inside_chroot ==
    SimpleStep("generate_grub_cfg_from_inside_chroot",
               Entry("generate_grub_cfg", "mountpoint"), "fix_grub_cfg_root_device")

\* lines 494-501
fix_grub_cfg_root_device ==
    /\ pc = "fix_grub_cfg_root_device"
    /\ NoLoop
    /\ LET call == UuidEntry("sed", "boot/grub/grub.cfg", first_partition_uuid)
       IN  \/ Return("generate_initramfs_from_inside_chroot", <<call>>)
           \/ Raise("fix_grub_cfg_root_device", <<call>>)
    /\ UNCHANGED <<fixed, run_state>>

\* lines 611-613, called at line 823
generate_initramfs_from_inside_chroot ==
    SimpleStep("generate_initramfs_from_inside_chroot",
               Entry("generate_initramfs", "mountpoint"), AfterInitramfs)

\* lines 629-636
copy_chroot_scripts_mkdir ==
    SimpleStep("copy_chroot_scripts_mkdir", Entry("mkdir", "root/chroot-scripts"),
               "copy_chroot_scripts_cp")

\* lines 637-648
copy_chroot_scripts_cp ==
    /\ pc = "copy_chroot_scripts_cp"
    /\ NoLoop
    /\ \/ /\ idx <= Len(chroot_scripts)
          /\ \/ /\ pc' = "copy_chroot_scripts_chmod"
                /\ log' = Append(log, ScriptEntry("cp", chroot_scripts[idx]))
                /\ UNCHANGED <<idx, exc, forward_exc, faults>>
             \/ Raise("copy_chroot_scripts_cp", <<ScriptEntry("cp", chroot_scripts[idx])>>)
          /\ UNCHANGED acquired
       \/ /\ idx > Len(chroot_scripts)
          /\ Return("run_chroot_scripts", <<>>)
          /\ acquired' = Append(acquired, "chroot_scripts")
    /\ UNCHANGED <<fixed, abs_mountpoint, abs_first_partition_device,
                   first_partition_uuid, blkid_output, fstab, mbr_writes,
                   mounts_below, device_map, bootloader_cmd, bootloader_env, mountpoint_dir,
                   partprobe_gave_up, boot_flag>>

\* lines 649-654
copy_chroot_scripts_chmod ==
    /\ pc = "copy_chroot_scripts_chmod"
    /\ NoLoop
    /\ \/ /\ pc' = "copy_chroot_scripts_cp"
          /\ idx' = idx + 1
          /\ log' = Append(log, ScriptEntry("chmod", chroot_scripts[idx]))
          /\ UNCHANGED <<exc, forward_exc, faults>>
       \/ Raise("copy_chroot_scripts_chmod", <<ScriptEntry("chmod", chroot_scripts[idx])>>)
    /\ UNCHANGED <<fixed, run_state>>

\* lines 656-668
run_chroot_scripts ==
    RunScriptsStep("run_chroot_scripts", "run_chroot_script", chroot_scripts,
                   "remove_chroot_scripts")

\* lines 670-688 (finally of lines 829-830)
remove_chroot_scripts ==
    /\ pc = "remove_chroot_scripts"
    /\ NoLoop
    /\ \/ /\ idx <= Len(chroot_scripts)
          /\ \/ /\ pc' = pc
                /\ idx' = idx + 1
                /\ log' = Append(log, ScriptEntry("rm", chroot_scripts[idx]))
                /\ UNCHANGED <<exc, forward_exc, faults>>
             \/ Raise("remove_chroot_scripts", <<ScriptEntry("rm", chroot_scripts[idx])>>)
       \/ /\ idx > Len(chroot_scripts)
          /\ \/ /\ Goto(AfterFinally("remove_chroot_scripts",
                                     "unmount_nondisk_chroot_mounts"))
                /\ log' = Append(log, Entry("rmdir", "root/chroot-scripts"))
                /\ UNCHANGED <<exc, forward_exc, faults>>
             \/ Raise("remove_chroot_scripts", <<Entry("rmdir", "root/chroot-scripts")>>)
    /\ UNCHANGED <<fixed, run_state>>

\* mutant: the non-disk mounts are unmounted in the order they were mounted
nondisk_unmount_order_forward == NON_DISK_MOUNT_TASKS

\* mutant: dev, the first file system mounted, is left mounted
nondisk_unmount_order_without_dev == SubSeq(Reverse(NON_DISK_MOUNT_TASKS), 1, 3)

\* line 707: reversed(_NON_DISK_MOUNT_TASKS)
nondisk_unmount_order == Reverse(NON_DISK_MOUNT_TASKS)

\* lines 705-709 (finally of lines 831-832)
unmount_nondisk_chroot_mounts ==
    /\ pc = "unmount_nondisk_chroot_mounts"
    /\ \/ /\ idx <= Len(nondisk_unmount_order)
          /\ RetryCall(nondisk_unmount_order[idx], "unmount_nondisk_chroot_mounts",
                       Entry("umount", nondisk_unmount_order[idx]),
                       pc' = pc /\ idx' = idx + 1)
       \/ /\ idx > Len(nondisk_unmount_order)
          /\ NoLoop
          /\ Goto(AfterFinally("unmount_nondisk_chroot_mounts",
                               "perform_post_chroot_clean_up"))
          /\ UNCHANGED <<log, exc, forward_exc, faults>>
    /\ UNCHANGED <<fixed, run_state>>

\* lines 711-712
perform_post_chroot_clean_up ==
    SimpleStep("perform_post_chroot_clean_up",
               Entry("perform_post_chroot_clean_up", "mountpoint"), "run_post_scripts")

\* lines 714-718 and 503-509
run_post_scripts ==
    RunScriptsStep("run_post_scripts", "run_post_script",
                   scripts_from(scripts_dir["post-chroot"]),
                   "unmount_disk_chroot_mounts")

\* lines 720-722 (finally of lines 835-836)
unmount_disk_chroot_mounts ==
    /\ pc = "unmount_disk_chroot_mounts"
    /\ RetryCall("mountpoint", "unmount_disk_chroot_mounts",
                 Entry("umount", "mountpoint"),
                 Goto(AfterFinally("unmount_disk_chroot_mounts", "rmdir_mountpount")))
    /\ UNCHANGED <<fixed, run_state>>

\* what os.rmdir answers: done, EBUSY, or another errno
RmdirResults == {"ok", "EBUSY", "ENOTEMPTY"}

\* lines 742-752 (finally of lines 837-838)
rmdir_mountpount ==
    /\ pc = "rmdir_mountpount"
    /\ LET n == (IF loop = "rmdir_mountpount" THEN attempt ELSE 0) + 1
           entries == IF n = 1 THEN <<Entry("os.rmdir", "mountpoint")>> ELSE <<>>
       IN  \E result \in RmdirResults :
                /\ IF result = "ok"
                   THEN NoLoop
                   ELSE loop' = "rmdir_mountpount" /\ attempt' = n /\ rc' = 0
                /\ \/ /\ result = "ok"
                      /\ mountpoint_dir' = FALSE
                      /\ Return(AfterFinally("rmdir_mountpount", "kpartx_minus_d"), entries)
                   \/ /\ result = "EBUSY"
                      /\ n < RETRY_RANGE
                      /\ log' = log \o entries
                      /\ UNCHANGED <<pc, idx, exc, forward_exc, faults, mountpoint_dir>>
                   \/ /\ result = "EBUSY"
                      /\ n = RETRY_RANGE
                      /\ Return(AfterFinally("rmdir_mountpount", "kpartx_minus_d"), entries)
                      /\ UNCHANGED mountpoint_dir
                   \/ /\ result \notin {"ok", "EBUSY"}
                      /\ Raise("rmdir_mountpount", entries)
                      /\ UNCHANGED mountpoint_dir
    /\ UNCHANGED <<fixed, abs_mountpoint, abs_first_partition_device,
                   first_partition_uuid, blkid_output, fstab, mbr_writes,
                   mounts_below, device_map, bootloader_cmd, bootloader_env, acquired,
                   partprobe_gave_up, boot_flag>>

\* lines 724-740 (finally of lines 839-840)
kpartx_minus_d ==
    /\ pc = "kpartx_minus_d"
    /\ RetryCall("kpartx_minus_d", "kpartx_minus_d", Entry("kpartx", "-d"), Goto("done"))
    /\ UNCHANGED <<fixed, run_state>>

\* lines 777-840
Next ==
    \/ unshare
    \/ partition_device_mklabel
    \/ partition_device_mkpart
    \/ partition_device_boot_flag
    \/ set_disk_id_in_mbr
    \/ kpartx_minus_a_list
    \/ kpartx_minus_a_stale
    \/ kpartx_minus_a_add
    \/ kpartx_minus_a_partprobe
    \/ kpartx_minus_a_poll
    \/ format_partitions
    \/ set_first_partition_uuid
    \/ gather_first_partition_uuid
    \/ mkdir_mountpount
    \/ mount_disk_chroot_mounts
    \/ mkdir_mountpount_etc
    \/ create_etc_hostname_first
    \/ create_etc_resolv_conf_first
    \/ run_directory_bootstrap
    \/ unmount_directory_bootstrap_leftovers
    \/ create_etc_hostname_rewrite
    \/ create_etc_resolv_conf_rewrite
    \/ create_etc_fstab
    \/ create_network_configuration
    \/ run_pre_scripts
    \/ install_bootloader_device_map
    \/ install_bootloader_grub2
    \/ install_bootloader_remove_map
    \/ mount_nondisk_chroot_mounts
    \/ set_root_password_inside_chroot
    \/ generate_grub_cfg_from_inside_chroot
    \/ fix_grub_cfg_root_device
    \/ generate_initramfs_from_inside_chroot
    \/ copy_chroot_scripts_mkdir
    \/ copy_chroot_scripts_cp
    \/ copy_chroot_scripts_chmod
    \/ run_chroot_scripts
    \/ remove_chroot_scripts
    \/ unmount_nondisk_chroot_mounts
    \/ perform_post_chroot_clean_up
    \/ run_post_scripts
    \/ unmount_disk_chroot_mounts
    \/ rmdir_mountpount
    \/ kpartx_minus_d

Spec == Init /\ [][Next]_vars

\* every call of run() returns: a step that can be taken is taken
SpecLive == Spec /\ WF_vars(Next)


(***************************************************************************)
(* check_script_permissions(), lines 239-288.                              *)
(***************************************************************************)
\* int(text) of line 245: the value of a string of decimal digits; anything
\* else raises ValueError (-1 here)
IsDigits(text) == Len(text) > 0 /\ \A i \in 1..Len(text) : text[i] \in 48..57

RECURSIVE int(_)
int(text) ==
    IF ~IsDigits(text) THEN -1
    ELSE IF Len(text) = 1 THEN text[1] - 48
    ELSE 10 * int(SubSeq(text, 1, Len(text) - 1)) + (text[Len(text)] - 48)

\* lines 242-249
good_uids(ids) ==
    {ids.euid} \cup (IF ids.sudo_uid.set /\ IsDigits(ids.sudo_uid.text)
                     THEN {int(ids.sudo_uid.text)} ELSE {})

\* lines 279-285: the first eligible basename of the listing that is not
\* executable, if any
HasNonExecutableScript(dir) ==
    \E i \in 1..Len(dir.listing) :
        script_should_be_run(dir.listing[i]) /\ dir.listing[i] \in dir.nonexec

\* mutant: the owner of the directory is not checked
check_dir_no_owner(dir, good) ==
    IF ~dir.exists THEN "ENOENT"
    ELSE IF dir.ftype = "lnk" THEN "ENOTDIR_symlink"
    ELSE IF dir.ftype # "dir" THEN "ENOTDIR"
    ELSE IF dir.wbits # {} THEN "EPERM_writable"
    ELSE IF HasNonExecutableScript(dir) THEN "EACCES"
    ELSE "none"

\* lines 262-285 for one directory: the error raised, or "none"
check_dir(dir, good) ==
    IF ~dir.exists THEN "ENOENT"
    ELSE IF dir.ftype = "lnk" THEN "ENOTDIR_symlink"
    ELSE IF dir.ftype # "dir" THEN "ENOTDIR"
    ELSE IF dir.wbits # {} THEN "EPERM_writable"
    ELSE IF dir.uid \notin good THEN "EPERM_owner"
    ELSE IF HasNonExecutableScript(dir) THEN "EACCES"
    ELSE "none"

\* one pass of the loop of lines 251-285
check_script_permissions ==
    /\ pc = "check_script_permissions"
    /\ \/ /\ idx <= Len(ScriptCategories)
          /\ LET dir == scripts_dir[ScriptCategories[idx]]
             IN  \/ /\ ~dir.configured
                    /\ idx' = idx + 1
                    /\ UNCHANGED <<pc, perm_error>>
                 \/ /\ dir.configured
                    /\ check_dir(dir, good_uids(uids)) = "none"
                    /\ idx' = idx + 1
                    /\ UNCHANGED <<pc, perm_error>>
                 \/ /\ dir.configured
                    /\ check_dir(dir, good_uids(uids)) # "none"
                    /\ perm_error' = check_dir(dir, good_uids(uids))
                    /\ pc' = "preflight_failed"
                    /\ idx' = 1
       \/ /\ idx > Len(ScriptCategories)
          /\ pc' = "preflight_passed"
          /\ idx' = 1
          /\ UNCHANGED perm_error
    /\ UNCHANGED <<cfg, scripts_dir, uids, exc, forward_exc, log, loop, attempt, rc,
                   faults, run_state, command_grub2_install, path_commands,
                   version_output>>

\* the directories preflight may meet: None, missing, any file type, mode
\* and owner, and a trusted directory holding a script without the x bit
DirChoices ==
    {NoDir, [TrustedDir(<<name_b, name_hidden, name_a>>) EXCEPT !.exists = FALSE]}
    \cup {[TrustedDir(<<name_b, name_hidden, name_a>>) EXCEPT
              !.ftype = t, !.wbits = w, !.uid = u] :
            t \in {"dir", "lnk", "reg"},
            w \in {{}, {"S_IWGRP"}, {"S_IWOTH"}},
            u \in {0, 1000, 999}}
    \cup {[TrustedDir(<<name_b, name_hidden, name_a>>) EXCEPT !.nonexec = x] :
            x \in {{name_a}, {name_hidden}}}

UidChoices ==
    {[euid |-> 0, sudo_uid |-> v] :
        v \in {[set |-> FALSE, text |-> <<>>],
               [set |-> TRUE, text |-> <<49, 48, 48, 48>>],
               [set |-> TRUE, text |-> <<97>>]}}

InitTrust ==
    /\ cfg = [disk_id |-> <<>>, first_partition_uuid |-> <<>>, root_password |-> FALSE,
              bootloader_approach |-> BOOTLOADER__NONE, bootloader_force |-> FALSE,
              command_grub2_install |-> "grub2-install"]
    /\ scripts_dir \in [Range(ScriptCategories) -> DirChoices]
    /\ uids \in UidChoices
    /\ first_partition_uuid = <<>>
    /\ pc = "check_script_permissions"
    /\ InitHost
    /\ InitRuntime

NextTrust == check_script_permissions

SpecTrust == InitTrust /\ [][NextTrust]_vars


(***************************************************************************)
(* detect_grub2_install(), lines 151-182.                                  *)
(***************************************************************************)
COMMAND_GRUB_INSTALL == "grub-install"
COMMAND_GRUB2_INSTALL == "grub2-install"

\* the marker of line 146, as the tokens of 'GRUB GRUB 0.'
GRUB_LEGACY_MARKER == <<"GRUB", " ", "GRUB", " ", "0.">>

\* `marker in output` on strings: marker is a contiguous part of output
Contains(output, marker) ==
    \E i \in 0..(Len(output) - Len(marker)) :
        SubSeq(output, i + 1, i + Len(marker)) = marker

\* mutant: the marker is never recognised
output_is_grub_legacy_never(output) == FALSE

\* line 146
output_is_grub_legacy(output) == Contains(output, GRUB_LEGACY_MARKER)

\* _find_command, lines 134-142: found in a directory of PATH, or OSError 127
find_command(command) == command \in path_commands

detect_rest == <<cfg, scripts_dir, uids, perm_error, path_commands, version_output,
                 forward_exc, loop, attempt, rc, idx, faults, run_state>>

\* lines 151-164
detect_grub2_install ==
    /\ pc = "detect_grub2_install"
    /\ IF command_grub2_install # ""
       THEN pc' = "detect_done" /\ UNCHANGED command_grub2_install
       ELSE IF ~use_host(cfg.bootloader_approach)
       THEN pc' = "detect_done" /\ UNCHANGED command_grub2_install
       ELSE pc' = "detect_find_grub2" /\ command_grub2_install' = COMMAND_GRUB2_INSTALL
    /\ UNCHANGED <<exc, log, detect_rest>>

\* lines 165-171
detect_find_grub2 ==
    /\ pc = "detect_find_grub2"
    /\ IF find_command(command_grub2_install)
       THEN pc' = "detect_done" /\ UNCHANGED command_grub2_install
       ELSE pc' = "detect_find_grub" /\ command_grub2_install' = COMMAND_GRUB_INSTALL
    /\ UNCHANGED <<exc, log, detect_rest>>

\* mutant: detection itself fails when grub-install is not found either
AfterFindGrub_raises(found) ==
    IF found THEN "protect_against_grub_legacy" ELSE "detect_failed"

\* lines 173-182: the probe when found, the plain return of line 180 when not
AfterFindGrub(found) ==
    IF found THEN "protect_against_grub_legacy" ELSE "detect_done"

\* lines 172-180
detect_find_grub ==
    /\ pc = "detect_find_grub"
    /\ pc' = AfterFindGrub(find_command(command_grub2_install))
    /\ UNCHANGED <<exc, log, command_grub2_install, detect_rest>>

\* lines 182 and 144-149: the probe exits non-zero (check_output raises), or
\* its output is inspected for the marker
protect_against_grub_legacy ==
    /\ pc = "protect_against_grub_legacy"
    /\ log' = Append(log, Entry(command_grub2_install, "--version"))
    /\ \/ /\ exc' = "CalledProcessError"
          /\ pc' = "detect_failed"
       \/ /\ output_is_grub_legacy(version_output)
          /\ exc' = "ValueError"
          /\ pc' = "detect_failed"
       \/ /\ ~output_is_grub_legacy(version_output)
          /\ pc' = "detect_done"
          /\ UNCHANGED exc
    /\ UNCHANGED <<command_grub2_install, detect_rest>>

\* the characters of a command
CommandChars(command) ==
    CASE command = "grub-install" -> <<103, 114, 117, 98, 45>>
      [] command = "grub2-install" -> <<103, 114, 117, 98, 50, 45>>
      [] command = "/opt/grub/sbin/grub-install" -> <<47, 111, 112, 116, 47>>

\* lines 184-220, for the last command of get_commands_to_check_for (line 131);
\* every other command of that list is on PATH
check_for_commands ==
    /\ pc = "detect_done"
    /\ LET command == command_grub2_install
       IN  IF command = ""
           THEN pc' = "check_done" /\ UNCHANGED <<exc, log>>
           ELSE IF startswith(CommandChars(command), <<47>>)
           THEN IF command \in path_commands
                THEN pc' = "check_done" /\ UNCHANGED <<exc, log>>
                ELSE /\ pc' = "check_failed"
                     /\ exc' = "OSError_ENOENT"
                     /\ UNCHANGED log
           ELSE IF find_command(command)
           THEN /\ pc' = "check_done"
                /\ log' = Append(log, Entry("Checking", command))
                /\ UNCHANGED exc
           ELSE /\ pc' = "check_failed"
                /\ exc' = "OSError_127"
                /\ log' = Append(log, Entry("NOT FOUND", command))
    /\ UNCHANGED <<command_grub2_install, detect_rest>>

\* what `grub-install --version` may print
VersionOutputs ==
    {<<"grub-install", " ", "(", "GRUB", " ", "GRUB", " ", "0.", "93", ")", "\n">>,
     <<"grub-install", " ", "(", "GNU", " ", "GRUB", " ", "0.", "97", ")", "\n">>,
     <<"grub-install", " ", "(", "GRUB", ")", " ", "2.", "02", "\n">>,
     <<"GRUB", " ", "GRUB", " ", "2.", "0.", "\n">>,
     <<>>}

\* --grub2-install: not given, a basename, an absolute path
ExplicitCommands == {"", COMMAND_GRUB_INSTALL, "/opt/grub/sbin/grub-install"}

InitDetect ==
    /\ \E a \in Approaches, c \in ExplicitCommands :
        cfg = [disk_id |-> <<>>, first_partition_uuid |-> <<>>, root_password |-> FALSE,
               bootloader_approach |-> a, bootloader_force |-> FALSE,
               command_grub2_install |-> c]
    /\ scripts_dir = [category \in Range(ScriptCategories) |-> NoDir]
    /\ uids = [euid |-> 0, sudo_uid |-> [set |-> FALSE, text |-> <<>>]]
    /\ first_partition_uuid = <<>>
    /\ command_grub2_install = cfg.command_grub2_install
    /\ path_commands \in SUBSET {COMMAND_GRUB_INSTALL, COMMAND_GRUB2_INSTALL,
                                 "/opt/grub/sbin/grub-install"}
    /\ version_output \in VersionOutputs
    /\ pc = "detect_grub2_install"
    /\ InitRuntime

NextDetect ==
    \/ detect_grub2_install
    \/ detect_find_grub2
    \/ detect_find_grub
    \/ protect_against_grub_legacy
    \/ check_for_commands

SpecDetect == InitDetect /\ [][NextDetect]_vars


(***************************************************************************)
(* _install_bootloader__grub2() on its own: every approach that installs a *)
(* bootloader, with and without --force.                                   *)
(***************************************************************************)
\* what mkdtemp may have answered, and what detection may have resolved
InstallMountpoints == {MOUNTPOINT, "/mnt/tmpYYYYYY"}
InstallCommands == {COMMAND_GRUB2_INSTALL, COMMAND_GRUB_INSTALL, "/opt/grub/sbin/grub-install"}

\* the engine at the call of line 808 or 814; the log starts at the call
InitInstall ==
    /\ \E a \in Approaches \ {BOOTLOADER__NONE}, force \in BOOLEAN :
        cfg = [disk_id |-> <<>>, first_partition_uuid |-> <<>>, root_password |-> FALSE,
               bootloader_approach |-> a, bootloader_force |-> force,
               command_grub2_install |-> ""]
    /\ scripts_dir = [category \in Range(ScriptCategories) |-> NoDir]
    /\ uids = [euid |-> 0, sudo_uid |-> [set |-> FALSE, text |-> <<>>]]
    /\ first_partition_uuid = <<"11111111-2222-3333-4444-555555555555">>
    /\ command_grub2_install \in InstallCommands
    /\ path_commands = {command_grub2_install}
    /\ version_output = <<>>
    /\ pc = "install_bootloader_grub2"
    /\ exc = "none"
    /\ forward_exc = "none"
    /\ log = <<>>
    /\ loop = ""
    /\ attempt = 0
    /\ rc = 0
    /\ idx = 1
    /\ abs_mountpoint \in InstallMountpoints
    /\ abs_first_partition_device = <<"/dev/mapper/", "loop0p1">>
    /\ blkid_output = <<>>
    /\ fstab = <<>>
    /\ mbr_writes = <<>>
    /\ mounts_below = <<>>
    /\ device_map = IF use_device_map(cfg.bootloader_approach)
                    THEN device_map_line(realpath(TARGET_PATH)) ELSE <<>>
    /\ bootloader_cmd = <<>>
    /\ bootloader_env = InheritedEnv
    /\ mountpoint_dir = TRUE
    /\ acquired = <<"activation", "mountpoint", "partition_mount">>
                    \o (IF use_chroot(cfg.bootloader_approach)
                        THEN <<"nondisk_mounts">> ELSE <<>>)
    /\ partprobe_gave_up = FALSE
    /\ boot_flag = TRUE
    /\ faults = 0
    /\ perm_error = "none"

NextInstall == install_bootloader_grub2

SpecInstall == InitInstall /\ [][NextInstall]_vars


(***************************************************************************)
(* Properties.                                                             *)
(***************************************************************************)
Done == pc = "done"

\* positions of the log whose entry satisfies Test
Positions(Test(_)) == {i \in 1..Len(log) : Test(log[i])}

Called(entry) == entry \in Range(log)

RECURSIVE Flatten(_)
Flatten(seqs) == IF Len(seqs) = 0 THEN <<>> ELSE Head(seqs) \o Flatten(Tail(seqs))

\* the release actions of a resource, in the order they are to be invoked
ReleaseActions(resource) ==
    CASE resource = "activation" -> <<Entry("kpartx", "-d")>>
      [] resource = "mountpoint" -> <<Entry("os.rmdir", "mountpoint")>>
      [] resource = "partition_mount" -> <<Entry("umount", "mountpoint")>>
      [] resource = "nondisk_mounts" ->
            <<Entry("umount", "sys"), Entry("umount", "proc"),
              Entry("umount", "dev/pts"), Entry("umount", "dev")>>
      [] resource = "chroot_scripts" ->
            [i \in 1..Len(chroot_scripts) |-> ScriptEntry("rm", chroot_scripts[i])]
            \o <<Entry("rmdir", "root/chroot-scripts")>>

IsReleaseAction(entry) ==
    \E resource \in {"activation", "mountpoint", "partition_mount", "nondisk_mounts",
                     "chroot_scripts"} : entry \in Range(ReleaseActions(resource))

\* every release action of every acquired resource, last acquired first
ExpectedReleases ==
    Flatten([i \in 1..Len(acquired) |-> ReleaseActions(Reverse(acquired)[i])])

\* C1: when run() has returned after a forward step failed and no cleanup
\* action raised, the release actions invoked are exactly those of the resources
\* the completed steps acquired, in strict reverse order of acquisition.
C1_ReverseCleanup ==
    (Done /\ forward_exc # "none" /\ exc = forward_exc)
        => SelectSeq(log, IsReleaseAction) = ExpectedReleases

\* a chroot script failed with all five resources held, and run() has returned
C1_Witness ==
    /\ Done
    /\ forward_exc = "run_chroot_scripts"
    /\ exc = forward_exc
    /\ acquired = <<"activation", "mountpoint", "partition_mount", "nondisk_mounts",
                    "chroot_scripts">>

\* C2: when a forward step failed, the error run() ends with is that forward
\* error, whatever the cleanup actions did.
C2_ForwardErrorReported == (Done /\ forward_exc # "none") => exc = forward_exc

\* C3: when run() has returned, every release action of every acquired
\* resource has been attempted, whether or not a cleanup action failed.
C3_AllCleanupAttempted == Done => Range(ExpectedReleases) \subseteq Range(log)

\* the step whose retry loop `id` is
RetryStepOf(id) ==
    CASE id \in {"partition_device_boot_flag", "kpartx_minus_a_partprobe",
                 "kpartx_minus_d"} -> id
      [] id = "mountpoint" -> "unmount_disk_chroot_mounts"
      [] id \in Range(NON_DISK_MOUNT_TASKS) -> "unmount_nondisk_chroot_mounts"
      [] OTHER -> "unmount_directory_bootstrap_leftovers"

\* C4: when a retried command has exited 1 on 3 attempts, the pipeline is
\* aborting with that command's error.
C4_RetryExhaustionAborts ==
    (rc = 1 /\ attempt = RETRY_RANGE)
        => (exc = RetryStepOf(loop) /\ pc = Handler(RetryStepOf(loop)))

\* C5: when an attempt of a retried command has exited 127, that error is
\* propagating, control has left the retry loop for the enclosing finally block
\* (or run() has ended), and the attempt was one of at most 3.
C5_Exit127IsFatal ==
    rc = EXIT_COMMAND_NOT_FOUND
        => /\ exc = RetryStepOf(loop)
           /\ pc = Handler(RetryStepOf(loop))
           /\ pc # RetryStepOf(loop)
           /\ attempt \in 1..RETRY_RANGE

\* partprobe exited 127 on its first attempt
C5_Witness ==
    /\ rc = EXIT_COMMAND_NOT_FOUND
    /\ attempt = 1
    /\ loop = "kpartx_minus_a_partprobe"

\* C6: when partprobe exited 1 on all 3 attempts, run() ends with an error
\* and has invoked kpartx -d.
C6_PartprobeGiveUpUnwinds ==
    (Done /\ partprobe_gave_up) => (exc # "none" /\ Called(Entry("kpartx", "-d")))

\* the basenames the entries `cmd` of the log name, in log order
ScriptsRun(cmd) ==
    LET runs == SelectSeq(log, LAMBDA e : e.cmd = cmd)
    IN  [i \in 1..Len(runs) |-> runs[i].script]

IsPrefix(s, t) == Len(s) <= Len(t) /\ s = SubSeq(t, 1, Len(s))

\* the eligible basenames of a directory in lexicographic order
LexicographicEligible(dir) ==
    IF dir.configured THEN SelectSeq(SortSeq(dir.listing, StrLess), script_should_be_run)
    ELSE <<>>

\* C7: in each phase the scripts run so far are the first eligible basenames
\* in lexicographic order, and all of them once the phase has completed.
C7_ScriptsInLexicographicOrder ==
    /\ IsPrefix(ScriptsRun("run_pre_script"),
                LexicographicEligible(scripts_dir["pre-chroot"]))
    /\ IsPrefix(ScriptsRun("run_chroot_script"),
                LexicographicEligible(scripts_dir["chroot"]))
    /\ IsPrefix(ScriptsRun("run_post_script"),
                LexicographicEligible(scripts_dir["post-chroot"]))

\* a configured directory that violates the trust rules
Untrusted(dir) ==
    /\ dir.configured
    /\ \/ dir.ftype = "lnk"
       \/ dir.ftype # "dir"
       \/ dir.wbits \cap {"S_IWGRP", "S_IWOTH"} # {}
       \/ /\ dir.uid # uids.euid
          /\ ~(uids.sudo_uid.set /\ IsDigits(uids.sudo_uid.text)
               /\ dir.uid = int(uids.sudo_uid.text))
       \/ \E basename \in Range(dir.listing) :
            /\ ~StartsWithDot(basename)
            /\ ~EndsWithTilde(basename)
            /\ basename \in dir.nonexec

\* C8: check_script_permissions ends with an error if any configured
\* directory violates the trust rules, passes only if none does, and has spawned
\* no child process either way.
C8_UntrustedScriptsDirAborts ==
    pc \in {"preflight_failed", "preflight_passed"}
        => /\ (\E category \in Range(ScriptCategories) : Untrusted(scripts_dir[category]))
                => (pc = "preflight_failed" /\ perm_error # "none")
           /\ pc = "preflight_passed"
                => /\ perm_error = "none"
                   /\ \A category \in Range(ScriptCategories) :
                        ~Untrusted(scripts_dir[category])
           /\ log = <<>>

\* the check failed on a post-chroot directory owned by an untrusted UID after
\* the two directories before it passed
C8_Witness ==
    /\ pc = "preflight_failed"
    /\ perm_error = "EPERM_owner"
    /\ ~Untrusted(scripts_dir["pre-chroot"])
    /\ ~Untrusted(scripts_dir["chroot"])
    /\ scripts_dir["chroot"].configured
    /\ scripts_dir["post-chroot"].uid = 999

\* C9: with a UUID configured, blkid is never invoked, tune2fs -U <that
\* UUID> has run on the first partition device before the mountpoint is created,
\* and fstab names exactly that UUID; with none configured, tune2fs is never
\* invoked, blkid runs only after mkfs.ext4, and fstab names exactly the
\* right-stripped, valid value blkid printed.  Either way first_partition_uuid is
\* non-empty from the creation of the mountpoint on.
C9_FstabUuidRoundTrip ==
    LET configured == cfg.first_partition_uuid
        blkids == Positions(LAMBDA e : e.cmd = "blkid")
        tune2fss == Positions(LAMBDA e : e.cmd = "tune2fs")
        mkfss == Positions(LAMBDA e : e.cmd = "mkfs.ext4")
        mountpoint_step == pc = "mkdir_mountpount" \/ Called(Entry("mkdtemp", "/mnt"))
    IN  /\ configured # <<>>
            => /\ blkids = {}
               /\ \A i \in tune2fss :
                    /\ log[i].uuid = configured
                    /\ log[i].tgt = abs_first_partition_device[2]
               /\ mountpoint_step => tune2fss # {}
               /\ fstab # <<>>
                    => fstab = <<"/dev/disk/by-uuid/", configured[1],
                                 " / auto defaults 0 1">>
        /\ configured = <<>>
            => /\ tune2fss = {}
               /\ \A i \in blkids : \E j \in mkfss : j < i
               /\ mountpoint_step => blkids # {}
               /\ fstab # <<>>
                    => /\ Len(rstrip(blkid_output)) = 1
                       /\ rstrip(blkid_output)[1] \in CanonicalUuids
                       /\ ~IsSpace(rstrip(blkid_output)[1])
                       /\ fstab = <<"/dev/disk/by-uuid/", blkid_output[1],
                                    " / auto defaults 0 1">>
        /\ mountpoint_step => first_partition_uuid # <<>>

\* fstab has been written from the value blkid printed
C9_Witness ==
    /\ cfg.first_partition_uuid = <<>>
    /\ fstab = <<"/dev/disk/by-uuid/", "aaaaaaaa-bbbb-cccc-dddd-eeeeeeeeeeee",
                 " / auto defaults 0 1">>
    /\ blkid_output = <<"aaaaaaaa-bbbb-cccc-dddd-eeeeeeeeeeee", "\n">>

\* C10: with a disk id configured, the one write to target_path is 4 bytes
\* at offset 440, comes after the three parted invocations and before every
\* activation command, has happened once activation starts, and no parted
\* invocation follows it; with none configured, target_path is never written.
C10_MbrDiskIdOrdering ==
    LET writes == Positions(LAMBDA e : e = Entry("open_w", TARGET_PATH))
        parteds == Positions(LAMBDA e : e.cmd = "parted")
        activations == Positions(LAMBDA e : e.cmd = "partprobe"
                                             \/ (e.cmd = "kpartx" /\ e.tgt \in {"-l", "-a"}))
    IN  /\ cfg.disk_id = <<>> => (writes = {} /\ mbr_writes = <<>>)
        /\ cfg.disk_id # <<>>
            => /\ Cardinality(writes) <= 1
               /\ Len(mbr_writes) <= Cardinality(writes)
               /\ \A i \in 1..Len(mbr_writes) : mbr_writes[i] = [offset |-> 440, count |-> 4]
               /\ \A i \in writes :
                    /\ \A what \in {"mklabel", "mkpart", "set 1 boot on"} :
                        \E j \in parteds : j < i /\ log[j].tgt = what
                    /\ \A j \in parteds : j < i
                    /\ \A k \in activations : i < k
                    /\ pc # "partition_device_boot_flag"
               /\ activations # {} => Len(mbr_writes) = 1

\* the disk id was written and the partition devices were then activated
C10_Witness ==
    /\ cfg.disk_id # <<>>
    /\ Len(mbr_writes) = 1
    /\ Called(Entry("kpartx", "-a"))
    /\ Done

\* the host command was resolved by detection to grub-install, found on PATH
ResolvedToGrubInstall ==
    /\ cfg.command_grub2_install = ""
    /\ use_host(cfg.bootloader_approach)
    /\ command_grub2_install = COMMAND_GRUB_INSTALL
    /\ COMMAND_GRUB_INSTALL \in path_commands

\* C11: when detection has ended with the host command resolved to a
\* grub-install found on PATH, that command was probed with --version, and if
\* what it printed contains 'GRUB GRUB 0.' detection ended with an error; the
\* probe is made for no other command.
C11_GrubLegacyRefused ==
    pc \in {"detect_done", "detect_failed"}
        => /\ ResolvedToGrubInstall
                => /\ log = <<Entry(COMMAND_GRUB_INSTALL, "--version")>>
                   /\ Contains(version_output, GRUB_LEGACY_MARKER)
                        => (pc = "detect_failed" /\ exc # "none")
           /\ ~ResolvedToGrubInstall => (log = <<>> /\ pc = "detect_done")

\* detection refused a grub-install that printed the marker
C11_Witness ==
    /\ pc = "detect_failed"
    /\ exc = "ValueError"
    /\ ResolvedToGrubInstall
    /\ Contains(version_output, GRUB_LEGACY_MARKER)

\* C12: when run() has completed without error, partition 1 has its boot
\* flag set: an invocation of parted 'set 1 boot on' succeeded in that run.
C12_BootFlagSetOnSuccess == (Done /\ exc = "none") => boot_flag

\* C13: a name beginning with 'loop' is never refreshed with partprobe and
\* a node that already exists is refused before kpartx -a; any other name never
\* reaches kpartx -a.  When run() has ended: with a loop name partprobe was never
\* invoked and kpartx -a was invoked (once) if the partition devices were
\* activated, and not at all if the node already existed; with any other name
\* kpartx -a was never invoked and partprobe was if the devices were activated.
C13_LoopDevicePath ==
    LET adds == Positions(LAMBDA e : e = Entry("kpartx", "-a"))
        probes == Positions(LAMBDA e : e.cmd = "partprobe")
        activated == "activation" \in Range(acquired)
        named == abs_first_partition_device # <<>>
    IN  /\ pc \in {"kpartx_minus_a_stale", "kpartx_minus_a_add"}
            => (named /\ IsLoopName(abs_first_partition_device[2]))
        /\ pc = "kpartx_minus_a_partprobe"
            => (named /\ ~IsLoopName(abs_first_partition_device[2]))
        /\ pc = "kpartx_minus_a_poll"
            => log[Len(log)] = IF IsLoopName(abs_first_partition_device[2])
                               THEN Entry("kpartx", "-a") ELSE Entry("partprobe", "")
        /\ exc = "kpartx_minus_a_stale" => Done
        /\ Done
            => /\ ~named => (adds = {} /\ probes = {})
               /\ named
                    => IF IsLoopName(abs_first_partition_device[2])
                       THEN /\ probes = {}
                            /\ Cardinality(adds) <= 1
                            /\ activated => adds # {}
                            /\ exc = "kpartx_minus_a_stale" => adds = {}
                       ELSE /\ adds = {}
                            /\ Cardinality(probes) <= 1
                            /\ activated => probes # {}

\* a loop target whose node already existed was refused
C13_Witness ==
    /\ abs_first_partition_device = <<"/dev/mapper/", "loop0p1">>
    /\ exc = "kpartx_minus_a_stale"
    /\ Done

\* C14: with a drive approach, device.map holds the one line
\* '(hd0)<TAB><real target path>' whenever the installation command is about to
\* run, and is gone once the command has succeeded and
\* _install_bootloader__grub2 has returned; when run() has ended, the file was
\* written before the command was invoked.  With any other approach the file is
\* never written.
C14_DeviceMapLifecycle ==
    LET installs == Positions(LAMBDA e : e.cmd = "grub2-install")
        map_writes == Positions(LAMBDA e : e = Entry("write", "boot/grub/device.map"))
    IN  IF use_device_map(cfg.bootloader_approach)
        THEN /\ pc = "install_bootloader_grub2"
                    => device_map = <<"(hd0)", "\t", "/dev/sdz", "\n">>
             /\ (/\ device_map # <<>>
                 /\ forward_exc \notin {"install_bootloader_grub2",
                                        "install_bootloader_remove_map"})
                    => pc \in {"install_bootloader_grub2", "install_bootloader_remove_map"}
             /\ Done => \A i \in installs : \E j \in map_writes : j < i
        ELSE /\ device_map = <<>>
             /\ pc \notin {"install_bootloader_device_map", "install_bootloader_remove_map"}
             /\ Done => map_writes = {}

\* chroot-grub2-drive: the installation succeeded and the map is gone again
C14_Witness ==
    /\ cfg.bootloader_approach = BOOTLOADER__CHROOT_GRUB2__DRIVE
    /\ Called(Entry("grub2-install", "chroot"))
    /\ Called(Entry("os.remove", "boot/grub/device.map"))
    /\ device_map = <<>>
    /\ Done
    /\ exc = "none"

\* the calls of the finally blocks
IsCleanupEntry(e) ==
    e.cmd \in {"umount", "os.rmdir", "rm", "rmdir"} \/ e = Entry("kpartx", "-d")

\* the commands the retry policy is not applied to
IsNonRetriedEntry(e) ==
    \/ e.cmd \in {"mkfs.ext4", "mount", "run_pre_script", "run_chroot_script",
                  "run_post_script"}
    \/ e \in {Entry("parted", "mklabel"), Entry("parted", "mkpart")}

\* the step of run() such a call belongs to
NonRetriedStepOf(e) ==
    CASE e = Entry("parted", "mklabel") -> "partition_device_mklabel"
      [] e = Entry("parted", "mkpart") -> "partition_device_mkpart"
      [] e.cmd = "mkfs.ext4" -> "format_partitions"
      [] e = Entry("mount", "mountpoint") -> "mount_disk_chroot_mounts"
      [] e.cmd = "mount" /\ e.tgt # "mountpoint" -> "mount_nondisk_chroot_mounts"
      [] e.cmd = "run_pre_script" -> "run_pre_scripts"
      [] e.cmd = "run_chroot_script" -> "run_chroot_scripts"
      [] e.cmd = "run_post_script" -> "run_post_scripts"
      [] OTHER -> "other"

NonRetriedSteps ==
    {"partition_device_mklabel", "partition_device_mkpart", "format_partitions",
     "mount_disk_chroot_mounts", "mount_nondisk_chroot_mounts", "run_pre_scripts",
     "run_chroot_scripts", "run_post_scripts"}

\* C15: when mkfs.ext4, mount, parted mklabel, parted mkpart or a script
\* has failed, the run is aborting and only finally blocks run from then on.
\* When run() has ended, each of these commands was invoked at most once, and
\* the one that failed is the last call of the forward pipeline.
C15_NoRetryForFatalCommands ==
    LET once == Positions(IsNonRetriedEntry)
        forward == Positions(LAMBDA e : ~IsCleanupEntry(e))
    IN  /\ forward_exc \in NonRetriedSteps
            => (exc # "none" /\ (pc \in CleanupSteps \/ Done))
        /\ Done
            => /\ Cardinality({log[i] : i \in once}) = Cardinality(once)
               /\ forward_exc \in NonRetriedSteps
                    => /\ forward # {}
                       /\ \E last \in forward :
                            /\ \A i \in forward : i <= last
                            /\ IsNonRetriedEntry(log[last])
                            /\ NonRetriedStepOf(log[last]) = forward_exc

\* the first pre-chroot script failed: the second never ran
C15_Witness ==
    /\ forward_exc = "run_pre_scripts"
    /\ ScriptsRun("run_pre_script") = <<name_a>>
    /\ Done

\* the call at position i of the log returned normally: a later call of the
\* forward pipeline followed it
ReturnedAt(i) == \E j \in (i + 1)..Len(log) : ~IsCleanupEntry(log[j])

\* C16: when run() has ended, every non-disk file system that was mounted
\* has been unmounted, a chroot-scripts directory that was created has been
\* removed, and kpartx -d has been invoked if kpartx -a succeeded.
C16_PartialAcquisitionReleased ==
    Done
        => /\ \A i \in Positions(LAMBDA e : e.cmd = "mount" /\ e.tgt # "mountpoint") :
                ReturnedAt(i)
                    => \E j \in (i + 1)..Len(log) : log[j] = Entry("umount", log[i].tgt)
           /\ \A i \in Positions(LAMBDA e : e = Entry("mkdir", "root/chroot-scripts")) :
                ReturnedAt(i) => Called(Entry("rmdir", "root/chroot-scripts"))
           /\ (Called(Entry("kpartx", "-a")) /\ exc # "kpartx_minus_a_add")
                => Called(Entry("kpartx", "-d"))

\* C17: with a host approach no non-disk file system is mounted while the
\* installation runs, with a chroot approach all four are.  When run() has
\* ended: grub2-install was invoked at most once, never with 'none', and once if
\* the run completed without error with another approach; with a host approach
\* it was the host command, after every pre-chroot script and before the first
\* non-disk mount; with a chroot approach it ran via chroot, after all four
\* non-disk mounts and before any of their unmounts.
C17_BootloaderPlacement ==
    LET installs == Positions(LAMBDA e : e.cmd = "grub2-install")
        mounts == Positions(LAMBDA e : e.cmd = "mount" /\ e.tgt # "mountpoint")
        umounts == Positions(LAMBDA e : e.cmd = "umount"
                                         /\ e.tgt \in Range(NON_DISK_MOUNT_TASKS))
        pre == Positions(LAMBDA e : e.cmd = "run_pre_script")
        approach == cfg.bootloader_approach
    IN  /\ pc \in BootloaderSteps
            => /\ approach # BOOTLOADER__NONE
               /\ ("nondisk_mounts" \in Range(acquired)) = use_chroot(approach)
        /\ Done
            => /\ Cardinality(installs) <= 1
               /\ approach = BOOTLOADER__NONE => installs = {}
               /\ (approach # BOOTLOADER__NONE /\ exc = "none") => installs # {}
               /\ use_host(approach)
                    => /\ mounts # {} => installs # {}
                       /\ \A i \in installs :
                            /\ log[i].tgt = "host"
                            /\ bootloader_cmd[1] = command_grub2_install
                            /\ ScriptsRun("run_pre_script")
                                    = scripts_from(scripts_dir["pre-chroot"])
                            /\ \A j \in pre : j < i
                            /\ \A j \in mounts \cup umounts : i < j
               /\ use_chroot(approach)
                    => \A i \in installs :
                            /\ log[i].tgt = "chroot"
                            /\ bootloader_cmd[1] = "chroot"
                            /\ {log[j].tgt : j \in {m \in mounts : m < i}}
                                    = Range(NON_DISK_MOUNT_TASKS)
                            /\ \A j \in pre : j < i
                            /\ \A j \in umounts : i < j

\* a host installation ran and the non-disk file systems were mounted after it
C17_Witness ==
    /\ cfg.bootloader_approach = BOOTLOADER__HOST_GRUB2__DEVICE
    /\ Called(Entry("grub2-install", "host"))
    /\ Called(Entry("mount", "sys"))
    /\ ScriptsRun("run_pre_script") = <<name_a, name_b>>
    /\ Done

\* C18: the chroot scripts run, and are removed, only after
\* _copy_chroot_scripts has completed and before the non-disk file systems are
\* unmounted.  When run() has ended after the copy completed and no cleanup
\* action raised, every copied script was deleted and then the chroot-scripts
\* directory removed, all before the first unmount of a non-disk file system.
C18_ChrootScriptsRemoved ==
    LET umounts == Positions(LAMBDA e : e.cmd = "umount"
                                         /\ e.tgt \in Range(NON_DISK_MOUNT_TASKS))
        removals == SelectSeq(log, LAMBDA e : e.cmd \in {"rm", "rmdir"})
        last_removal == Positions(LAMBDA e : e = Entry("rmdir", "root/chroot-scripts"))
        copied == "chroot_scripts" \in Range(acquired)
    IN  /\ pc \in {"run_chroot_scripts", "remove_chroot_scripts"}
            => (copied /\ log[Len(log)].cmd # "umount")
        /\ (Done /\ copied /\ exc = forward_exc)
            => /\ removals = [i \in 1..Len(chroot_scripts) |->
                                ScriptEntry("rm", chroot_scripts[i])]
                             \o <<Entry("rmdir", "root/chroot-scripts")>>
               /\ \A i \in last_removal : \A j \in umounts : i < j

\* the first chroot script failed; the copies and their directory are gone
C18_Witness ==
    /\ forward_exc = "run_chroot_scripts"
    /\ exc = forward_exc
    /\ ScriptsRun("run_chroot_script") = <<name_b>>
    /\ Called(Entry("rmdir", "root/chroot-scripts"))
    /\ Called(Entry("umount", "dev"))
    /\ Done

\* C19: while _unmount_directory_bootstrap_leftovers runs, the latest call
\* is run_directory_bootstrap or one of these umounts.  When run() has ended with
\* no cleanup action having raised, the calls that follow run_directory_bootstrap
\* in the log are the umounts of the mountpoints below the target mountpoint,
\* each once, in the reverse of the order the mount table lists them, and the
\* mountpoint itself is unmounted only after them.
C19_LeftoversUnmountedInReverse ==
    LET unpack == Positions(LAMBDA e : e.cmd = "run_directory_bootstrap")
        n == Len(mounts_below)
    IN  /\ pc = "unmount_directory_bootstrap_leftovers"
            => \/ log[Len(log)].cmd = "run_directory_bootstrap"
               \/ log[Len(log)].cmd = "umount" /\ log[Len(log)].tgt \in Range(mounts_below)
        /\ (Done /\ exc = forward_exc)
            => /\ Cardinality(unpack) <= 1
               /\ \A r \in unpack :
                    /\ Len(log) >= r + n
                    /\ \A i \in 1..n : log[r + i] = Entry("umount", mounts_below[n + 1 - i])
                    /\ \A j \in (r + n + 1)..Len(log) :
                         ~(log[j].cmd = "umount" /\ log[j].tgt \in Range(mounts_below))

\* the unpack step failed with two file systems left mounted below the
\* mountpoint, and the run has ended
C19_Witness ==
    /\ forward_exc = "run_directory_bootstrap"
    /\ exc = forward_exc
    /\ mounts_below = <<"mnt/proc", "mnt/sys">>
    /\ Called(Entry("umount", "mnt/proc"))
    /\ Called(Entry("umount", "mountpoint"))
    /\ Done

\* C20: the recorded mountpoint is non-empty exactly when the temporary
\* mountpoint directory exists on disk, and is empty once run() has ended.
C20_MountpointIffDirectoryExists ==
    /\ (abs_mountpoint # "") <=> mountpoint_dir
    /\ Done => abs_mountpoint = ""

\* the kernel has been told about the partitions of the target and the device
\* node of the first partition has been seen to exist
PartitionsActivated ==
    /\ Called(Entry("kpartx", "-a")) \/ Called(Entry("partprobe", ""))
    /\ "activation" \in Range(acquired)

\* C21: the recorded first-partition device is non-empty exactly when the
\* kernel has been told about the partitions of the target and the device
\* node has been seen to exist.
C21_FirstPartitionDeviceIffActivated ==
    (abs_first_partition_device # <<>>) <=> PartitionsActivated

\* the targets of the calls `cmd` on the non-disk file systems, in log order
NonDiskCalls(cmd) ==
    LET calls == SelectSeq(log, LAMBDA e : e.cmd = cmd /\ e.tgt \in Range(NON_DISK_MOUNT_TASKS))
    IN  [i \in 1..Len(calls) |-> calls[i].tgt]

\* C22: the non-disk file systems are mounted in the order dev, dev/pts, proc,
\* sys. While they are being unmounted, each umount is in its retry loop of at
\* most 3 attempts. When run() has ended after all four were mounted and no
\* cleanup action raised, they have been unmounted in the order sys, proc,
\* dev/pts, dev, and the partition was unmounted after all four.
C22_NonDiskMountsReverseOrder ==
    /\ (pc = "unmount_nondisk_chroot_mounts" /\ loop # "")
        => /\ loop \in Range(NON_DISK_MOUNT_TASKS)
           /\ attempt \in 1..RETRY_RANGE
    /\ Done
        => /\ NonDiskCalls("mount")
                = SubSeq(NON_DISK_MOUNT_TASKS, 1, Len(NonDiskCalls("mount")))
           /\ ("nondisk_mounts" \in Range(acquired) /\ exc = forward_exc)
                => /\ NonDiskCalls("umount") = <<"sys", "proc", "dev/pts", "dev">>
                   /\ \E last \in 1..Len(log) :
                        /\ log[last] = Entry("umount", "mountpoint")
                        /\ \A i \in 1..Len(log) :
                             (log[i].cmd = "umount"
                              /\ log[i].tgt \in Range(NON_DISK_MOUNT_TASKS)) => i < last

\* a run without any error has ended: all four were mounted and unmounted
C22_Witness ==
    /\ Done
    /\ exc = "none"
    /\ NonDiskCalls("mount") = NON_DISK_MOUNT_TASKS
    /\ Called(Entry("umount", "dev"))
    /\ Called(Entry("umount", "mountpoint"))

\* a call on one of the non-disk file systems
IsNonDiskCall(e, cmd) == e.cmd = cmd /\ e.tgt \in Range(NON_DISK_MOUNT_TASKS)

\* position i of the log lies between the last non-disk mount and the first
\* non-disk umount
WhileNonDiskMounted(i) ==
    /\ \E m \in 1..(i - 1) : log[m] = Entry("mount", "sys")
    /\ \A u \in 1..(i - 1) : ~IsNonDiskCall(log[u], "umount")

\* C23: when run() has ended: with approach none neither the GRUB config
\* generation nor the sed rewrite of grub.cfg was invoked; otherwise the
\* generation came after the bootloader install and the sed after the
\* generation, both while the non-disk file systems were mounted. The initramfs
\* generation came after them and before any chroot script was copied, and a
\* run without error invoked each of them exactly once.
C23_GrubCfgAndInitramfsOrder ==
    Done =>
        LET gen == Positions(LAMBDA e : e.cmd = "generate_grub_cfg")
            sed == Positions(LAMBDA e : e.cmd = "sed")
            initramfs == Positions(LAMBDA e : e.cmd = "generate_initramfs")
            install == Positions(LAMBDA e : e.cmd = "grub2-install")
            copy == Positions(LAMBDA e : e.cmd \in {"mkdir", "cp", "chmod"})
        IN  /\ cfg.bootloader_approach = BOOTLOADER__NONE => (gen = {} /\ sed = {})
            /\ Cardinality(gen) <= 1 /\ Cardinality(sed) <= 1
            /\ Cardinality(initramfs) <= 1
            /\ \A g \in gen :
                /\ \E b \in install : b < g
                /\ WhileNonDiskMounted(g)
            /\ \A s \in sed :
                /\ \E g \in gen : g < s
                /\ WhileNonDiskMounted(s)
            /\ \A r \in initramfs :
                /\ \A i \in gen \cup sed : i < r
                /\ \A c \in copy : r < c
                /\ cfg.bootloader_approach # BOOTLOADER__NONE => sed # {}
            /\ copy # {} => initramfs # {}
            /\ exc = "none"
                => /\ Cardinality(initramfs) = 1
                   /\ cfg.bootloader_approach # BOOTLOADER__NONE
                        => (Cardinality(gen) = 1 /\ Cardinality(sed) = 1)

\* a run with the bootloader installed from the host has ended without error,
\* chroot scripts copied
C23_Witness ==
    /\ Done
    /\ exc = "none"
    /\ cfg.bootloader_approach = BOOTLOADER__HOST_GRUB2__DEVICE
    /\ Called(Entry("generate_grub_cfg", "mountpoint"))
    /\ Called(Entry("generate_initramfs", "mountpoint"))
    /\ Called(Entry("mkdir", "root/chroot-scripts"))

\* C24: the bootloader installation was handed to the executor as
\* 'chroot <mountpoint> <distro grub2-install>', with an environment of its
\* own that names no mountpoint, for the chroot approaches, and as
\* '<resolved grub2-install> --boot-directory <mountpoint>/boot', with the
\* inherited environment, for the host approaches; then '--force' exactly when
\* bootloader_force is set; then one last argument, '(hd0)' for the drive
\* approaches and the target path for the device approaches.
C24_BootloaderCommandAssembly ==
    bootloader_cmd # <<>> =>
        LET a == cfg.bootloader_approach
            forced == IF cfg.bootloader_force THEN 1 ELSE 0
            n == Len(bootloader_cmd)
        IN  /\ a \in {BOOTLOADER__CHROOT_GRUB2__DEVICE, BOOTLOADER__CHROOT_GRUB2__DRIVE}
                => /\ SubSeq(bootloader_cmd, 1, 3)
                        = <<"chroot", abs_mountpoint, "distro:grub2-install">>
                   /\ ~bootloader_env.inherited
                   /\ "IB_ROOT" \notin bootloader_env.set
                   /\ "MNTPOINT" \notin bootloader_env.set
            /\ a \in {BOOTLOADER__HOST_GRUB2__DEVICE, BOOTLOADER__HOST_GRUB2__DRIVE}
                => /\ SubSeq(bootloader_cmd, 1, 3)
                        = <<command_grub2_install, "--boot-directory",
                            abs_mountpoint \o "/boot">>
                   /\ bootloader_env.inherited
            /\ a # BOOTLOADER__NONE
            /\ n = 3 + forced + 1
            /\ cfg.bootloader_force => bootloader_cmd[4] = "--force"
            /\ ~cfg.bootloader_force => \A i \in 1..n : bootloader_cmd[i] # "--force"
            /\ a \in {BOOTLOADER__CHROOT_GRUB2__DRIVE, BOOTLOADER__HOST_GRUB2__DRIVE}
                => bootloader_cmd[n] = "(hd0)"
            /\ a \in {BOOTLOADER__CHROOT_GRUB2__DEVICE, BOOTLOADER__HOST_GRUB2__DEVICE}
                => bootloader_cmd[n] = TARGET_PATH

\* a forced installation from the host onto the drive has been handed over
C24_Witness ==
    /\ cfg.bootloader_approach = BOOTLOADER__HOST_GRUB2__DRIVE
    /\ cfg.bootloader_force
    /\ Len(bootloader_cmd) = 5
    /\ Called(Entry("grub2-install", "host"))

\* detect_grub2_install() has returned or raised
DetectionEnded == pc \in {"detect_done", "detect_failed", "check_done", "check_failed"}

\* some command was probed with --version
Probed == \E i \in 1..Len(log) : log[i].tgt = "--version"

\* C25: when detection has ended: the command is the configured one, and
\* nothing was probed, if a command was configured or the approach is not a
\* host approach; otherwise it is grub2-install, unprobed, if that is on PATH,
\* and grub-install if not. When neither is on PATH detection itself raised
\* nothing, and the commands check that follows fails naming grub-install.
C25_Grub2InstallDetection ==
    DetectionEnded =>
        LET detecting ==
                /\ cfg.command_grub2_install = ""
                /\ cfg.bootloader_approach \in {BOOTLOADER__HOST_GRUB2__DEVICE,
                                                BOOTLOADER__HOST_GRUB2__DRIVE}
            has2 == COMMAND_GRUB2_INSTALL \in path_commands
            has1 == COMMAND_GRUB_INSTALL \in path_commands
        IN  /\ ~detecting
                => /\ command_grub2_install = cfg.command_grub2_install
                   /\ ~Probed
                   /\ pc # "detect_failed"
            /\ (detecting /\ has2)
                => /\ command_grub2_install = "grub2-install"
                   /\ ~Probed
                   /\ pc # "detect_failed"
            /\ (detecting /\ ~has2) => command_grub2_install = "grub-install"
            /\ (detecting /\ ~has2 /\ ~has1)
                => /\ ~Probed
                   /\ pc \in {"detect_done", "check_failed"}
                   /\ pc = "detect_done" => exc = "none"
                   /\ pc = "check_failed"
                        => /\ exc = "OSError_127"
                           /\ log = <<Entry("NOT FOUND", "grub-install")>>

\* neither command is on PATH: the commands check has reported grub-install
C25_Witness ==
    /\ pc = "check_failed"
    /\ cfg.command_grub2_install = ""
    /\ cfg.bootloader_approach = BOOTLOADER__HOST_GRUB2__DRIVE
    /\ path_commands = {}
    /\ command_grub2_install = "grub-install"

\* a cleanup call of run()
IsCleanupCall(e) ==
    \/ e = Entry("kpartx", "-d")
    \/ e = Entry("os.rmdir", "mountpoint")
    \/ e = Entry("umount", "mountpoint")
    \/ IsNonDiskCall(e, "umount")
    \/ e.cmd \in {"rm", "rmdir"}

\* no loop of run() is past its third attempt, and no cleanup call was begun
\* a second time
BoundedAttempts ==
    /\ attempt \in 0..RETRY_RANGE
    /\ Done => \A i, j \in Positions(IsCleanupCall) : log[i] = log[j] => i = j

\* C26: run() ends, whatever the commands answer. Until then no retried
\* command, nor the wait for the partition node, nor the rmdir of the
\* mountpoint, is tried more than 3 times in one loop, and each cleanup action
\* is begun at most once.
C26_TerminatesWithBoundedAttempts == []BoundedAttempts /\ <>Done

\* kpartx -d has given up after its third attempt, at the end of a run that
\* unmounted the partition
C26_Witness ==
    /\ Done
    /\ loop = "kpartx_minus_d"
    /\ attempt = RETRY_RANGE
    /\ rc = 1
    /\ Called(Entry("umount", "mountpoint"))

\* C27: while the post-chroot clean-up or the post-chroot scripts are about
\* to run, no error is propagating. When run() has ended: the clean-up was
\* invoked at most once, after the umounts of all four non-disk file systems,
\* the post-chroot scripts after it, and the partition was unmounted after
\* both; and whether or not they were skipped, once the partition had been
\* mounted its umount, the rmdir of the mountpoint and kpartx -d were invoked.
C27_PostChrootPhasePlacement ==
    /\ pc \in {"perform_post_chroot_clean_up", "run_post_scripts"}
        => (exc = "none" /\ forward_exc = "none")
    /\ Done =>
        LET cleanup == Positions(LAMBDA e : e.cmd = "perform_post_chroot_clean_up")
            scripts == Positions(LAMBDA e : e.cmd = "run_post_script")
            unmount == Positions(LAMBDA e : e = Entry("umount", "mountpoint"))
        IN  /\ Cardinality(cleanup) <= 1
            /\ scripts # {} => cleanup # {}
            /\ \A c \in cleanup :
                /\ \A t \in Range(NON_DISK_MOUNT_TASKS) :
                     \E u \in 1..(c - 1) : log[u] = Entry("umount", t)
                /\ \A s \in scripts : c < s
            /\ \A p \in cleanup \cup scripts :
                /\ unmount # {}
                /\ \A u \in unmount : p < u
            /\ "partition_mount" \in Range(acquired)
                => /\ Called(Entry("umount", "mountpoint"))
                   /\ Called(Entry("os.rmdir", "mountpoint"))
                   /\ Called(Entry("kpartx", "-d"))

\* the last non-disk umount exited 127: the post-chroot phase was skipped and
\* the outer finally blocks ran
C27_Witness ==
    /\ Done
    /\ forward_exc = "none"
    /\ exc = "unmount_nondisk_chroot_mounts"
    /\ Called(Entry("umount", "dev"))
    /\ ~Called(Entry("perform_post_chroot_clean_up", "mountpoint"))
    /\ Called(Entry("kpartx", "-d"))

====
